---- MODULE Spec2Model ----
(***************************************************************************)
(* Model of the assignee resolution engine of the Planner task creator    *)
(* (deno-app/file-parser.ts, class FileParser): normalizeKey,              *)
(* generateMemberKeys, generateAssigneeKeys, buildMemberIndex,             *)
(* findMemberMatches and lookupAssignees.                                  *)
(*                                                                         *)
(* A JavaScript string is a sequence of characters; a character is a      *)
(* one-character TLA+ string, or "U+xxxx" for a code point outside ASCII.  *)
(* An optional string field that is absent is the empty sequence: the      *)
(* code tests such fields by truthiness (if (member.mail), x || ""), which *)
(* does not tell undefined from "".  An optional list that is absent is    *)
(* the empty list for the same reason (assignees && assignees.length > 0,  *)
(* and result lists are only assigned when non-empty).                     *)
(***************************************************************************)
EXTENDS Integers, Sequences, FiniteSets, TLC

VARIABLES
    value,           \* SpecNorm: the string handed to normalizeKey
    normalized,      \* SpecNorm: normalizeKey(value)
    renormalized,    \* SpecNorm: normalizeKey(normalized)
    plannerMembers,  \* lookupAssignees: the roster argument
    tasks,           \* lookupAssignees: the ParsedTask[] argument
    pc,              \* position in the running method
    memberIndex,     \* lookupAssignees: const memberIndex = {keyMap, entries}
    processedTasks,  \* lookupAssignees: the ProcessedTask[] under construction
    evaluated,       \* per processed task, the evaluateAssignee result of each of its names
    planBuckets,     \* the buckets of the selected plan, as Graph holds them
    buckets,         \* lookupBuckets: const buckets = await auth.getPlannerBuckets(...)
    enrichedTasks,   \* sessionData.enrichedTasks: <<>> when unset, else <<the task list>>
    lookups,         \* number of /api/lookup-buckets requests served
    bucketId,        \* /api/create-tasks: the default bucketId of the request body
    createdIn,       \* /api/create-tasks: per task, the bucket id handed to auth.createTask
    history,         \* the lookupAssignees and lookupBuckets calls completed: arguments and result
    creating         \* /api/buckets/create: per request, its position and its toCreate list

\* the state of the bucket side of a session
bucketVars == <<planBuckets, buckets, enrichedTasks, lookups, bucketId, createdIn, history,
                creating>>

vars == <<value, normalized, renormalized, plannerMembers, tasks, pc,
          memberIndex, processedTasks, evaluated, bucketVars>>

----------------------------------------------------------------------------
(* Bounds *)

MaxNormLen == 4      \* longest input of normalizeKey in SpecNorm
MaxRawLen == 3       \* longest assignee string of a single-assignee task
MaxNames == 2        \* longest assignees list
MaxRoster == 2       \* longest roster
MaxWords == 2        \* most words in the first or the last name of SpecSwap
MaxMailLen == 4      \* longest assignee string of SpecMail
MaxParenLen == 4     \* longest assignee string of SpecParen
MaxCommaWords == 3   \* most words of an assignee string of SpecComma
MaxFuzzyBuckets == 3 \* most buckets in a plan of SpecFuzzy
MaxCellWords == 2    \* most words of an assignee cell of a sheet
MaxRows == 1         \* most rows of a sheet
MaxRequests == 2     \* most /api/buckets/create requests
MaxCreateNames == 2  \* longest bucketNames list of a request
MaxBuckets == 2      \* most buckets in a plan
MaxBucketTasks == 2  \* longest task list of SpecBuckets
MaxLookups == 2      \* most /api/lookup-buckets requests in a session
MaxSessionTasks == 1 \* longest task list of SpecSession
MaxAssigneeRuns == 2 \* most /api/lookup-assignees requests in a session

\* no /api/buckets/create request has been received
NoRequests == [r \in 1..MaxRequests |-> [pc |-> "idle", toCreate |-> <<>>]]

----------------------------------------------------------------------------
(* Characters and strings *)

Range(s) == {s[i] : i \in 1..Len(s)}

Str(chars, n) == UNION {[1..k -> chars] : k \in 0..n}

Upper == <<"A","B","C","D","E","F","G","H","I","J","K","L","M",
           "N","O","P","Q","R","S","T","U","V","W","X","Y","Z">>
Lower == <<"a","b","c","d","e","f","g","h","i","j","k","l","m",
           "n","o","p","q","r","s","t","u","v","w","x","y","z">>
Digits == {"0","1","2","3","4","5","6","7","8","9"}

\* the character class [a-z0-9]
IsAZ09(c) == c \in Range(Lower) \cup Digits

\* the class \s, which is also what String.prototype.trim removes
IsSpace(c) == c \in {" ", "U+0009", "U+000A", "U+000D", "U+00A0"}

\* the class [\u0300-\u036f] (combining diacritical marks)
IsCombiningMark(c) == c \in {"U+0300", "U+0301", "U+0308"}

\* what the regular expression "." does not match
IsLineTerminator(c) == c \in {"U+000A", "U+000D"}

\* String.prototype.normalize("NFKD") on one character
DecomposeChar(c) ==
    CASE c = "U+00E9" -> <<"e", "U+0301">>     \* e acute
      [] c = "U+00C9" -> <<"E", "U+0301">>     \* E acute
      [] c = "U+00F6" -> <<"o", "U+0308">>     \* o diaeresis
      [] c = "U+00A0" -> <<" ">>               \* no-break space
      [] c = "U+FB01" -> <<"f", "i">>          \* ligature fi
      [] OTHER -> <<c>>

RECURSIVE NFKD(_)
NFKD(s) == IF s = <<>> THEN <<>> ELSE DecomposeChar(Head(s)) \o NFKD(Tail(s))

\* String.prototype.toLowerCase on one character
LowerChar(c) ==
    IF \E i \in 1..26 : Upper[i] = c
    THEN Lower[CHOOSE i \in 1..26 : Upper[i] = c]
    ELSE IF c = "U+00D8" THEN "U+00F8"          \* O with stroke
    ELSE IF c = "U+00C9" THEN "U+00E9"
    ELSE c

toLowerCase(s) == [i \in 1..Len(s) |-> LowerChar(s[i])]

\* replace(/[\u0300-\u036f]/g, "")
StripMarks(s) == SelectSeq(s, LAMBDA c : ~IsCombiningMark(c))

RECURSIVE DropWhileNotAZ09(_)
DropWhileNotAZ09(s) ==
    IF s = <<>> \/ IsAZ09(Head(s)) THEN s ELSE DropWhileNotAZ09(Tail(s))

\* replace(/[^a-z0-9]+/g, " ")
RECURSIVE ReplaceNonAlnum(_)
ReplaceNonAlnum(s) ==
    IF s = <<>> THEN <<>>
    ELSE IF IsAZ09(Head(s)) THEN <<Head(s)>> \o ReplaceNonAlnum(Tail(s))
    ELSE <<" ">> \o ReplaceNonAlnum(DropWhileNotAZ09(Tail(s)))

RECURSIVE TrimStart(_)
TrimStart(s) == IF s # <<>> /\ IsSpace(Head(s)) THEN TrimStart(Tail(s)) ELSE s

RECURSIVE TrimEnd(_)
TrimEnd(s) ==
    IF s # <<>> /\ IsSpace(s[Len(s)]) THEN TrimEnd(SubSeq(s, 1, Len(s) - 1)) ELSE s

\* String.prototype.trim
Trim(s) == TrimEnd(TrimStart(s))

RECURSIVE DropWhileSpace(_)
DropWhileSpace(s) ==
    IF s = <<>> \/ ~IsSpace(Head(s)) THEN s ELSE DropWhileSpace(Tail(s))

\* replace(/\s+/g, " ")
RECURSIVE CollapseSpace(_)
CollapseSpace(s) ==
    IF s = <<>> THEN <<>>
    ELSE IF IsSpace(Head(s)) THEN <<" ">> \o CollapseSpace(DropWhileSpace(Tail(s)))
    ELSE <<Head(s)>> \o CollapseSpace(Tail(s))

\* String.prototype.includes
Includes(hay, needle) ==
    \E i \in 0..(Len(hay) - Len(needle)) :
        \A j \in 1..Len(needle) : hay[i + j] = needle[j]

\* String.prototype.split(sep) for a one-character separator
RECURSIVE Split(_, _)
Split(s, sep) ==
    IF \E i \in 1..Len(s) : s[i] = sep
    THEN LET i == CHOOSE k \in 1..Len(s) :
                      s[k] = sep /\ \A j \in 1..(k - 1) : s[j] # sep
         IN <<SubSeq(s, 1, i - 1)>> \o Split(SubSeq(s, i + 1, Len(s)), sep)
    ELSE <<s>>

\* replace(/\(.*?\)/g, ""): every "(" up to the nearest following ")" is cut,
\* provided no line terminator lies between the two
RECURSIVE StripParens(_)
StripParens(s) ==
    IF s = <<>> THEN <<>>
    ELSE IF Head(s) = "("
            /\ \E j \in 2..Len(s) :
                  s[j] = ")" /\ \A k \in 2..(j - 1) : s[k] # ")" /\ ~IsLineTerminator(s[k])
         THEN LET j == CHOOSE k \in 2..Len(s) : s[k] = ")" /\ \A l \in 2..(k - 1) : s[l] # ")"
              IN StripParens(SubSeq(s, j + 1, Len(s)))
         ELSE <<Head(s)>> \o StripParens(Tail(s))

\* replace(/,/g, " ")
CommasToSpaces(s) == [i \in 1..Len(s) |-> IF s[i] = "," THEN " " ELSE s[i]]

\* Set.prototype.add on a Set kept in insertion order
SetAdd(set, k) == IF k \in Range(set) THEN set ELSE Append(set, k)

\* `${a} ${b}`
Join2(a, b) == a \o <<" ">> \o b

\* the object has the property f of its own
Has(object, f) == f \in DOMAIN object

\* { ...object, ...extra }
Spread(object, extra) ==
    [f \in DOMAIN object \cup DOMAIN extra |->
        IF f \in DOMAIN extra THEN extra[f] ELSE object[f]]

----------------------------------------------------------------------------
(* FileParser: keys *)

\* normalizeKey with trim() called before the non-alphanumeric runs are replaced
normalizeKeyTrimFirst(v) ==
    IF v = <<>> THEN <<>>
    ELSE CollapseSpace(ReplaceNonAlnum(Trim(toLowerCase(StripMarks(NFKD(v))))))

normalizeKey(v) ==
    IF v = <<>> THEN <<>>
    ELSE CollapseSpace(Trim(ReplaceNonAlnum(toLowerCase(StripMarks(NFKD(v))))))

\* Array.from(keys).filter((key) => key.length > 0)
NonEmptyKeys(keys) == SelectSeq(keys, LAMBDA key : Len(key) > 0)

\* if (member.displayName) keys.add(normalizeKey(displayName))
AddDisplayName(keys, member) ==
    IF member.displayName # <<>>
    THEN SetAdd(keys, normalizeKey(member.displayName)) ELSE keys

\* if (member.givenName && member.surname) both orders
AddGivenSurname(keys, member) ==
    IF member.givenName # <<>> /\ member.surname # <<>>
    THEN SetAdd(SetAdd(keys, normalizeKey(Join2(member.givenName, member.surname))),
                normalizeKey(Join2(member.surname, member.givenName)))
    ELSE keys

\* if (member.companyName && member.givenName && member.surname) both orders
AddCompany(keys, member) ==
    IF member.companyName # <<>> /\ member.givenName # <<>> /\ member.surname # <<>>
    THEN SetAdd(SetAdd(keys,
             normalizeKey(Join2(Join2(member.givenName, member.surname), member.companyName))),
             normalizeKey(Join2(Join2(member.surname, member.givenName), member.companyName)))
    ELSE keys

\* if (member.mail) keys.add(mail.toLowerCase())
AddMail(keys, member) ==
    IF member.mail # <<>> THEN SetAdd(keys, toLowerCase(member.mail)) ELSE keys

\* if (member.userPrincipalName) keys.add(userPrincipalName.toLowerCase())
AddUpn(keys, member) ==
    IF member.userPrincipalName # <<>>
    THEN SetAdd(keys, toLowerCase(member.userPrincipalName)) ELSE keys

generateMemberKeys(member) ==
    NonEmptyKeys(AddUpn(AddMail(AddCompany(AddGivenSurname(
        AddDisplayName(<<>>, member), member), member), member), member))

\* normalizeKey(sanitized).split(" ").filter((token) => token.length > 0)
Tokens(sanitized) ==
    SelectSeq(Split(normalizeKey(sanitized), " "), LAMBDA token : Len(token) > 0)

\* if (noParen !== lower) keys.add(normalizeKey(noParen))
AddNoParen(keys, lower, noParen) ==
    IF noParen # lower THEN SetAdd(keys, normalizeKey(noParen)) ELSE keys

\* AddEmailLiteral that never adds the address itself as a key
AddEmailLiteralNone(keys, lower) == keys

\* if (lower.includes("@")) keys.add(lower.toLowerCase())
AddEmailLiteral(keys, lower) ==
    IF "@" \in Range(lower) THEN SetAdd(keys, toLowerCase(lower)) ELSE keys

\* lower.split(",").map((part) => part.replace(/\(.*?\)/g, "").trim())
CommaParts(split) == [i \in 1..Len(split) |-> Trim(StripParens(split[i]))]

\* AddCommaSwapped that swaps the first two parts however many there are
AddCommaSwappedAnyParts(keys, lower, parts) ==
    IF "," \in Range(lower) /\ Len(parts) >= 2
    THEN SetAdd(SetAdd(keys, normalizeKey(Join2(parts[2], parts[1]))),
                normalizeKey(Join2(parts[1], parts[2])))
    ELSE keys

\* if (lower.includes(",")) { ... if (parts.length === 2) both orders }
AddCommaSwapped(keys, lower, parts) ==
    IF "," \in Range(lower) /\ Len(parts) = 2
    THEN SetAdd(SetAdd(keys, normalizeKey(Join2(parts[2], parts[1]))),
                normalizeKey(Join2(parts[1], parts[2])))
    ELSE keys

\* AddFirstLast with the reversed bigram left out
AddFirstLastOnly(keys, tokens) ==
    IF Len(tokens) >= 2
    THEN SetAdd(keys, normalizeKey(Join2(tokens[1], tokens[Len(tokens)])))
    ELSE keys

\* if (tokens.length >= 2) first and last token, both orders
AddFirstLast(keys, tokens) ==
    IF Len(tokens) >= 2
    THEN SetAdd(SetAdd(keys, normalizeKey(Join2(tokens[1], tokens[Len(tokens)]))),
                normalizeKey(Join2(tokens[Len(tokens)], tokens[1])))
    ELSE keys

\* generateAssigneeKeys from line 570 on: lower is name.trim(), not empty
KeysAndTokens(lower, noParen, tokens) ==
    [keys |-> NonEmptyKeys(AddFirstLast(AddCommaSwapped(AddEmailLiteral(
                  AddNoParen(<<normalizeKey(lower)>>, lower, noParen), lower),
                  lower, CommaParts(Split(lower, ","))), tokens)),
     tokens |-> tokens]

\* noParen and tokens of the trimmed name
TrimmedKeys(lower, noParen) ==
    KeysAndTokens(lower, noParen, Tokens(CommasToSpaces(noParen)))

\* generateAssigneeKeys keeping only normalizeKey(name) and the tokens
generateAssigneeKeysPlain(name) ==
    IF Trim(name) = <<>>
    THEN [keys |-> <<>>, tokens |-> <<>>]
    ELSE [keys |-> NonEmptyKeys(<<normalizeKey(Trim(name))>>),
          tokens |-> Tokens(CommasToSpaces(Trim(StripParens(Trim(name)))))]

generateAssigneeKeys(name) ==
    IF Trim(name) = <<>>
    THEN [keys |-> <<>>, tokens |-> <<>>]
    ELSE TrimmedKeys(Trim(name), Trim(StripParens(Trim(name))))

----------------------------------------------------------------------------
(* FileParser: the member index *)

\* keyMap.get(key) || []
MapGet(keyMap, key) == IF key \in DOMAIN keyMap THEN keyMap[key] ELSE <<>>

\* MapPush that files the member in place of the ones filed before
MapPushReplace(keyMap, key, member) ==
    [k \in DOMAIN keyMap \cup {key} |-> IF k = key THEN <<member>> ELSE keyMap[k]]

\* existing.push(member); keyMap.set(key, existing)
MapPush(keyMap, key, member) ==
    [k \in DOMAIN keyMap \cup {key} |->
        IF k = key THEN Append(MapGet(keyMap, key), member) ELSE keyMap[k]]

RECURSIVE IndexKeys(_, _, _)
IndexKeys(keyMap, member, memberKeys) ==
    IF memberKeys = <<>> THEN keyMap
    ELSE IndexKeys(MapPush(keyMap, Head(memberKeys), member), member, Tail(memberKeys))

searchTextOf(member) ==
    normalizeKey(Join2(Join2(Join2(Join2(Join2(member.displayName, member.mail),
        member.userPrincipalName), member.givenName), member.surname), member.companyName))

\* one iteration of for (const member of members)
IndexMember(index, member) ==
    [keyMap |-> IndexKeys(index.keyMap, member, generateMemberKeys(member)),
     entries |-> Append(index.entries,
                        [member |-> member, searchText |-> searchTextOf(member)])]

RECURSIVE IndexMembers(_, _)
IndexMembers(index, members) ==
    IF members = <<>> THEN index
    ELSE IndexMembers(IndexMember(index, Head(members)), Tail(members))

EmptyIndex == [keyMap |-> [k \in {} |-> <<>>], entries |-> <<>>]

buildMemberIndex(members) == IndexMembers(EmptyIndex, members)

----------------------------------------------------------------------------
(* FileParser: matching one name *)

\* the ids of a list of members or buckets, and whether each occurs once
Ids(list) == {list[i].id : i \in 1..Len(list)}

NoRepeatedId(list) == \A i, j \in 1..Len(list) : list[i].id = list[j].id => i = j

HasId(matches, id) == \E i \in 1..Len(matches) : matches[i].id = id

\* PushNew without the comparison by id
PushAll(matches, list) == matches \o list

\* for (const member of list) if (!matches.find(e => e.id === member.id)) matches.push(member)
RECURSIVE PushNew(_, _)
PushNew(matches, list) ==
    IF list = <<>> THEN matches
    ELSE PushNew(IF HasId(matches, Head(list).id) THEN matches
                 ELSE Append(matches, Head(list)),
                 Tail(list))

\* MatchKeys that stops at the first key with members
RECURSIVE MatchFirstKey(_, _, _)
MatchFirstKey(matches, keys, keyMap) ==
    IF keys = <<>> \/ matches # <<>> THEN matches
    ELSE MatchFirstKey(PushNew(matches, MapGet(keyMap, Head(keys))), Tail(keys), keyMap)

\* for (const key of keys) { const membersForKey = index.keyMap.get(key); ... }
RECURSIVE MatchKeys(_, _, _)
MatchKeys(matches, keys, keyMap) ==
    IF keys = <<>> THEN matches
    ELSE MatchKeys(PushNew(matches, MapGet(keyMap, Head(keys))), Tail(keys), keyMap)

\* the entries whose searchText contains some token
SomeTokenIn(tokens, entries) ==
    SelectSeq(entries,
        LAMBDA entry : \E t \in 1..Len(tokens) : Includes(entry.searchText, tokens[t]))

\* the entries whose searchText contains every token
EveryTokenIn(tokens, entries) ==
    SelectSeq(entries,
        LAMBDA entry : \A t \in 1..Len(tokens) : Includes(entry.searchText, tokens[t]))

\* the members of the qualifying entries, in the order of entries
Qualifying(hit) == [i \in 1..Len(hit) |-> hit[i].member]

\* MatchesOrFallback that returns no member when no key has one
MatchesNoFallback(matches, tokens, entries) == matches

\* MatchesOrFallback without the early return on an empty token list
MatchesNoTokenGuard(matches, tokens, entries) ==
    IF Len(matches) > 0 THEN matches
    ELSE PushNew(matches, Qualifying(EveryTokenIn(tokens, entries)))

\* findMemberMatches after the loop over the keys (lines 639 to 655)
MatchesOrFallback(matches, tokens, entries) ==
    IF Len(matches) > 0 THEN matches
    ELSE IF Len(tokens) = 0 THEN matches
    ELSE PushNew(matches, Qualifying(EveryTokenIn(tokens, entries)))

\* findMemberMatches given the result of generateAssigneeKeys
MatchGenerated(gen, index) ==
    MatchesOrFallback(MatchKeys(<<>>, gen.keys, index.keyMap), gen.tokens, index.entries)

findMemberMatches(name, index) == MatchGenerated(generateAssigneeKeys(name), index)

\* { ...member, originalName: assigneeName, source: "planner-member" }
Tagged(member, assigneeName) ==
    [id |-> member.id, displayName |-> member.displayName, mail |-> member.mail,
     userPrincipalName |-> member.userPrincipalName, givenName |-> member.givenName,
     surname |-> member.surname, companyName |-> member.companyName,
     originalName |-> assigneeName, source |-> "planner-member"]

\* Outcome that also returns the first match as user when there are several
OutcomeFirstOfMany(matches, assigneeName) ==
    IF Len(matches) >= 1
    THEN [users |-> <<Tagged(matches[1], assigneeName)>>,
          candidates |-> IF Len(matches) > 1
                         THEN [i \in 1..Len(matches) |-> Tagged(matches[i], assigneeName)]
                         ELSE <<>>,
          needsReview |-> Len(matches) > 1]
    ELSE [users |-> <<>>, candidates |-> <<>>, needsReview |-> TRUE]

\* the three returns of evaluateAssignee (lines 672 to 690)
Outcome(matches, assigneeName) ==
    IF Len(matches) = 1
    THEN [users |-> <<Tagged(matches[1], assigneeName)>>, candidates |-> <<>>,
          needsReview |-> FALSE]
    ELSE IF Len(matches) > 1
    THEN [users |-> <<>>,
          candidates |-> [i \in 1..Len(matches) |-> Tagged(matches[i], assigneeName)],
          needsReview |-> TRUE]
    ELSE [users |-> <<>>, candidates |-> <<>>, needsReview |-> TRUE]

evaluateAssignee(assigneeName, index) ==
    Outcome(findMemberMatches(assigneeName, index), assigneeName)

----------------------------------------------------------------------------
(* FileParser.lookupAssignees: one task *)

\* the accumulators of the loop over task.assignees
NoNames == [matchedUsers |-> <<>>, failed |-> <<>>, candidates |-> <<>>, needsReview |-> FALSE]

\* Merge with needsReview assigned from the last result
MergeLastReview(acc, result, assigneeName) ==
    [matchedUsers |-> IF Len(result.users) > 0
                      THEN acc.matchedUsers \o result.users ELSE acc.matchedUsers,
     failed |-> IF Len(result.users) > 0 THEN acc.failed ELSE Append(acc.failed, assigneeName),
     candidates |-> IF Len(result.candidates) > 0
                    THEN acc.candidates \o result.candidates ELSE acc.candidates,
     needsReview |-> result.needsReview]

\* Merge that files a name as failed only when it has no candidates either
MergeFailedUnresolved(acc, result, assigneeName) ==
    [matchedUsers |-> IF Len(result.users) > 0
                      THEN acc.matchedUsers \o result.users ELSE acc.matchedUsers,
     failed |-> IF Len(result.users) > 0 \/ Len(result.candidates) > 0
                THEN acc.failed ELSE Append(acc.failed, assigneeName),
     candidates |-> IF Len(result.candidates) > 0
                    THEN acc.candidates \o result.candidates ELSE acc.candidates,
     needsReview |-> IF result.needsReview THEN TRUE ELSE acc.needsReview]

\* the body of for (const assigneeName of task.assignees) (lines 700 to 711)
Merge(acc, result, assigneeName) ==
    [matchedUsers |-> IF Len(result.users) > 0
                      THEN acc.matchedUsers \o result.users ELSE acc.matchedUsers,
     failed |-> IF Len(result.users) > 0 THEN acc.failed ELSE Append(acc.failed, assigneeName),
     candidates |-> IF Len(result.candidates) > 0
                    THEN acc.candidates \o result.candidates ELSE acc.candidates,
     needsReview |-> IF result.needsReview THEN TRUE ELSE acc.needsReview]

RECURSIVE MergeNames(_, _, _)
MergeNames(acc, names, index) ==
    IF names = <<>> THEN acc
    ELSE MergeNames(Merge(acc, evaluateAssignee(Head(names), index), Head(names)),
                    Tail(names), index)

\* const processedTask = { ...task }; lines 714 to 725: the merged lists are
\* stored when not empty
WithMerged(task, m) ==
    Spread(task,
        [assigneeUsers |-> m.matchedUsers,
         assigneeLookupFailed |-> FALSE,
         assigneeLookupFailedList |-> m.failed,
         assigneeCandidates |-> m.candidates,
         assigneeNeedsReview |-> m.needsReview])

\* WithSingle that stores no candidates
WithSingleNoCandidates(task, result) ==
    IF Len(result.users) > 0
    THEN Spread(task,
             [assigneeUsers |-> result.users,
              assigneeLookupFailed |-> FALSE,
              assigneeLookupFailedList |-> <<>>,
              assigneeCandidates |-> <<>>,
              assigneeNeedsReview |-> FALSE])
    ELSE Spread(task,
             [assigneeUsers |-> <<>>,
              assigneeLookupFailed |-> TRUE,
              assigneeLookupFailedList |-> <<>>,
              assigneeCandidates |-> <<>>,
              assigneeNeedsReview |-> TRUE])

\* lines 727 to 736: the task has one assignee string
WithSingle(task, result) ==
    IF Len(result.users) > 0
    THEN Spread(task,
             [assigneeUsers |-> result.users,
              assigneeLookupFailed |-> FALSE,
              assigneeLookupFailedList |-> <<>>,
              assigneeCandidates |-> <<>>,
              assigneeNeedsReview |-> FALSE])
    ELSE Spread(task,
             [assigneeUsers |-> <<>>,
              assigneeLookupFailed |-> TRUE,
              assigneeLookupFailedList |-> <<>>,
              assigneeCandidates |-> result.candidates,
              assigneeNeedsReview |-> TRUE])

\* const processedTask = { ...task } with no assignee field added
Unassigned(task) ==
    Spread(task,
        [assigneeUsers |-> <<>>,
         assigneeLookupFailed |-> FALSE,
         assigneeLookupFailedList |-> <<>>,
         assigneeCandidates |-> <<>>,
         assigneeNeedsReview |-> FALSE])

\* processTask that leaves the assignees alone once a lookupAssignees call has
\* been completed in the session
processTaskOnce(task, index) ==
    IF \E n \in 1..Len(history) : history[n].call = "lookupAssignees"
    THEN Unassigned(task)
    ELSE IF Len(task.assignees) > 0
    THEN WithMerged(task, MergeNames(NoNames, task.assignees, index))
    ELSE IF task.assignee # <<>>
    THEN WithSingle(task, evaluateAssignee(task.assignee, index))
    ELSE Unassigned(task)

\* the body of the loop over tasks
processTask(task, index) ==
    IF Len(task.assignees) > 0
    THEN WithMerged(task, MergeNames(NoNames, task.assignees, index))
    ELSE IF task.assignee # <<>>
    THEN WithSingle(task, evaluateAssignee(task.assignee, index))
    ELSE Unassigned(task)

\* the names of a task that lookupAssignees hands to evaluateAssignee, in order
namesOf(task) ==
    IF Len(task.assignees) > 0 THEN task.assignees
    ELSE IF task.assignee # <<>> THEN <<task.assignee>>
    ELSE <<>>

----------------------------------------------------------------------------
(* FileParser.lookupBuckets *)

\* the value undefined where a string is read
Undefined == <<"undefined">>

Bucket(id, name) == [id |-> id, name |-> name]

\* A Record<string, any> that starts as {} is the list of its own properties
\* [key, value] in insertion order.  record[key] = v on a key it already has
\* keeps the key's place.
PropertySetKeepFirst(record, key, v) ==
    IF \E i \in 1..Len(record) : record[i].key = key
    THEN record
    ELSE Append(record, [key |-> key, value |-> v])

PropertySet(record, key, v) ==
    IF \E i \in 1..Len(record) : record[i].key = key
    THEN [i \in 1..Len(record) |->
             IF record[i].key = key THEN [key |-> key, value |-> v] ELSE record[i]]
    ELSE Append(record, [key |-> key, value |-> v])

\* The lower-case keys that {} inherits from Object.prototype: reading one of
\* them from an object that has no such property of its own yields the
\* inherited function, not undefined.  (__proto__ is the other one.)
ObjectPrototypeKeys == {<<"c", "o", "n", "s", "t", "r", "u", "c", "t", "o", "r">>}

\* the inherited value as the code uses it: { ...value } copies no property,
\* so its id and its name read undefined
Inherited == [id |-> "undefined", name |-> Undefined]

\* bucketLookup[key], as a list of at most one value (empty when undefined)
LookupGet(bucketLookup, key) ==
    IF \E i \in 1..Len(bucketLookup) : bucketLookup[i].key = key
    THEN <<bucketLookup[CHOOSE i \in 1..Len(bucketLookup) : bucketLookup[i].key = key].value>>
    ELSE IF key \in ObjectPrototypeKeys THEN <<Inherited>>
    ELSE <<>>

\* for (const bucket of buckets) bucketLookup[bucket.name.toLowerCase()] = bucket
RECURSIVE AddBuckets(_, _)
AddBuckets(bucketLookup, bs) ==
    IF bs = <<>> THEN bucketLookup
    ELSE AddBuckets(PropertySet(bucketLookup, toLowerCase(Head(bs).name), Head(bs)), Tail(bs))

\* task.bucketName, empty when the task has none
LabelOf(task) == IF Has(task, "bucketName") THEN task.bucketName ELSE <<>>

\* for (const task of tasks) if (task.bucketName) uniqueBucketNames.add(task.bucketName)
RECURSIVE UniqueNames(_, _)
UniqueNames(uniqueBucketNames, ts) ==
    IF ts = <<>> THEN uniqueBucketNames
    ELSE UniqueNames(IF LabelOf(Head(ts)) # <<>>
                     THEN SetAdd(uniqueBucketNames, LabelOf(Head(ts)))
                     ELSE uniqueBucketNames,
                     Tail(ts))

\* { ...bucket, exactMatch }
Matched(bucket, exactMatch) ==
    [id |-> bucket.id, name |-> bucket.name, exactMatch |-> exactMatch]

\* Math.min(a, b) / Math.max(a, b) as the fraction <<min, max>>
Ratio(a, b) == IF a <= b THEN <<a, b>> ELSE <<b, a>>

\* s > t for two fractions
Above(s, t) == s[1] * t[2] > t[1] * s[2]

Half == <<1, 2>>

\* let bestMatch = null; let bestScore = 0
NoBest == [match |-> <<>>, score |-> <<0, 1>>]

\* lowerName.includes(availableName) || availableName.includes(lowerName)
Contained(lowerName, availableName) ==
    Includes(lowerName, availableName) \/ Includes(availableName, lowerName)

\* ScanEntry with score >= 0.5 as the threshold
ScanEntryAtLeastHalf(best, entry, bucketName, lowerName) ==
    IF /\ Contained(lowerName, entry.key)
       /\ Above(Ratio(Len(bucketName), Len(entry.key)), best.score)
       /\ ~Above(Half, Ratio(Len(bucketName), Len(entry.key)))
    THEN [match |-> <<Matched(entry.value, FALSE)>>,
          score |-> Ratio(Len(bucketName), Len(entry.key))]
    ELSE best

\* ScanEntry that keeps the first entry above the threshold
ScanEntryFirstAbove(best, entry, bucketName, lowerName) ==
    IF /\ Contained(lowerName, entry.key)
       /\ best.match = <<>>
       /\ Above(Ratio(Len(bucketName), Len(entry.key)), Half)
    THEN [match |-> <<Matched(entry.value, FALSE)>>,
          score |-> Ratio(Len(bucketName), Len(entry.key))]
    ELSE best

\* one iteration of for (const [availableName, bucket] of Object.entries(bucketLookup))
ScanEntry(best, entry, bucketName, lowerName) ==
    IF /\ Contained(lowerName, entry.key)
       /\ Above(Ratio(Len(bucketName), Len(entry.key)), best.score)
       /\ Above(Ratio(Len(bucketName), Len(entry.key)), Half)
    THEN [match |-> <<Matched(entry.value, FALSE)>>,
          score |-> Ratio(Len(bucketName), Len(entry.key))]
    ELSE best

RECURSIVE FuzzyScan(_, _, _, _)
FuzzyScan(best, entries, bucketName, lowerName) ==
    IF entries = <<>> THEN best.match
    ELSE FuzzyScan(ScanEntry(best, Head(entries), bucketName, lowerName),
                   Tail(entries), bucketName, lowerName)

\* if (bucketLookup[lowerName]) exact match, else the fuzzy scan
ExactOrFuzzy(found, bucketLookup, bucketName, lowerName) ==
    IF found # <<>> THEN <<Matched(found[1], TRUE)>>
    ELSE FuzzyScan(NoBest, bucketLookup, bucketName, lowerName)

\* the value stored in bucketMapping[bucketName]: empty for null
mapBucketName(bucketLookup, bucketName) ==
    ExactOrFuzzy(LookupGet(bucketLookup, toLowerCase(bucketName)), bucketLookup,
                 bucketName, toLowerCase(bucketName))

\* for (const bucketName of uniqueBucketNames) bucketMapping[bucketName] = ...
RECURSIVE MapNames(_, _, _)
MapNames(bucketMapping, names, bucketLookup) ==
    IF names = <<>> THEN bucketMapping
    ELSE MapNames(PropertySet(bucketMapping, Head(names),
                              mapBucketName(bucketLookup, Head(names))),
                  Tail(names), bucketLookup)

\* bucketMapping[task.bucketName]; every label read here was written by the
\* loop over uniqueBucketNames, so it is an own property
MappingGet(bucketMapping, key) ==
    IF \E i \in 1..Len(bucketMapping) : bucketMapping[i].key = key
    THEN bucketMapping[CHOOSE i \in 1..Len(bucketMapping) : bucketMapping[i].key = key].value
    ELSE <<>>

\* enrichedTask.bucketInfo = { id, name, originalName, exactMatch }
BucketInfo(matchedBucket, label) ==
    [id |-> matchedBucket.id, name |-> matchedBucket.name, originalName |-> label,
     exactMatch |-> matchedBucket.exactMatch]

\* EnrichWith that starts from the parsed fields, dropping earlier bucket results
EnrichFresh(task, found) ==
    IF LabelOf(task) # <<>> /\ found # <<>>
    THEN [title |-> task.title, bucketName |-> task.bucketName,
          bucketInfo |-> BucketInfo(found[1], LabelOf(task))]
    ELSE IF LabelOf(task) # <<>>
    THEN [title |-> task.title, bucketName |-> task.bucketName, bucketLookupFailed |-> TRUE]
    ELSE task

\* const enrichedTask = { ...task }; then bucketInfo or bucketLookupFailed is set
EnrichWith(task, found) ==
    IF LabelOf(task) # <<>> /\ found # <<>>
    THEN Spread(task, [bucketInfo |-> BucketInfo(found[1], LabelOf(task))])
    ELSE IF LabelOf(task) # <<>>
    THEN Spread(task, [bucketLookupFailed |-> TRUE])
    ELSE task

enrichTask(task, bucketMapping) == EnrichWith(task, MappingGet(bucketMapping, LabelOf(task)))

\* for (const task of tasks) enrichedTasks.push(enrichedTask)
ApplyBuckets(ts, bucketMapping) == [i \in 1..Len(ts) |-> enrichTask(ts[i], bucketMapping)]

lookupBuckets(ts, bs) ==
    ApplyBuckets(ts, MapNames(<<>>, UniqueNames(<<>>, ts), AddBuckets(<<>>, bs)))

\* /api/create-tasks: task.bucketInfo ? task.bucketInfo.id : bucketId
taskBucketId(task, default) ==
    IF Has(task, "bucketInfo") THEN task.bucketInfo.id ELSE default

----------------------------------------------------------------------------
(* Inputs *)

\* no plan is selected and the session has served no bucket request
NoBucketSession ==
    /\ planBuckets = <<>>
    /\ buckets = <<>>
    /\ enrichedTasks = <<>>
    /\ lookups = 0
    /\ bucketId = "undefined"
    /\ createdIn = <<>>
    /\ history = <<>>
    /\ creating = NoRequests

\* the characters of the inputs of normalizeKey in SpecNorm
NormChars == {"a", "B", "1", " ", "-", "U+0009", "U+00E9", "U+0301", "U+00D8"}

\* the characters of assignee names; no member of the directory below has a c
NameChars == {"a", "b", "c", " ", ",", "(", ")"}

Member(id, displayName, givenName, surname, companyName, mail, upn) ==
    [id |-> id, displayName |-> displayName, mail |-> mail, userPrincipalName |-> upn,
     givenName |-> givenName, surname |-> surname, companyName |-> companyName]

\* the directory the rosters are drawn from: letter a stands for a first name
\* (Ann), letter b for a last name (Lee); two people are called Ann Lee
AnnLee == Member("u1", <<"a", " ", "b">>, <<"a">>, <<"b">>, <<"a">>, <<>>, <<>>)
AnnLee2 == Member("u2", <<"A", " ", "B">>, <<>>, <<>>, <<>>, <<>>, <<>>)
LeeAnn == Member("u3", <<"b", " ", "a">>, <<>>, <<>>, <<>>, <<"b", "@", "a">>, <<"B", "@", "a">>)

MemberPool == {AnnLee, AnnLee2, LeeAnn}

Rosters == Str(MemberPool, MaxRoster)

Task(assignee, assignees) == [assignee |-> assignee, assignees |-> assignees]

\* the names that occur inside an assignees list
ListNames == {<<>>, <<" ">>, <<"a">>, <<"c">>, <<"a", " ", "b">>}

\* a task with one assignee string, a task with a list of names, and task
\* lists of two single-assignee tasks
SingleTasks == {Task(raw, <<>>) : raw \in Str(NameChars, MaxRawLen)}
ListTasks == {Task(<<>>, names) : names \in Str(ListNames, MaxNames)}
ShortTasks == {Task(raw, <<>>) : raw \in ListNames}

TaskLists ==
    {<<>>} \cup {<<t>> : t \in SingleTasks \cup ListTasks}
           \cup {<<t1, t2>> : t1 \in ShortTasks, t2 \in ShortTasks}

----------------------------------------------------------------------------
(* lookupAssignees(tasks, auth, accessToken, plannerMembers) *)

Init ==
    /\ plannerMembers \in Rosters
    /\ tasks \in TaskLists
    /\ pc = "start"
    /\ memberIndex = EmptyIndex
    /\ processedTasks = <<>>
    /\ evaluated = <<>>
    /\ NoBucketSession
    /\ value = <<>>
    /\ normalized = <<>>
    /\ renormalized = <<>>

\* const memberIndex = this.buildMemberIndex(plannerMembers)
BuildMemberIndex ==
    /\ pc = "start"
    /\ memberIndex' = buildMemberIndex(plannerMembers)
    /\ pc' = "loop"
    /\ UNCHANGED <<value, normalized, renormalized, plannerMembers, tasks,
                   processedTasks, evaluated, bucketVars>>

\* ProcessTask that empties the index once the task is matched
ProcessTaskForgetting ==
    /\ pc = "loop"
    /\ Len(processedTasks) < Len(tasks)
    /\ LET task == tasks[Len(processedTasks) + 1]
           names == namesOf(task)
       IN /\ processedTasks' = Append(processedTasks, processTask(task, memberIndex))
          /\ evaluated' = Append(evaluated,
                 [i \in 1..Len(names) |-> evaluateAssignee(names[i], memberIndex)])
    /\ memberIndex' = EmptyIndex
    /\ UNCHANGED <<value, normalized, renormalized, plannerMembers, tasks, pc, bucketVars>>

\* one iteration of for (const task of tasks)
ProcessTask ==
    /\ pc = "loop"
    /\ Len(processedTasks) < Len(tasks)
    /\ LET task == tasks[Len(processedTasks) + 1]
           names == namesOf(task)
       IN /\ processedTasks' = Append(processedTasks, processTask(task, memberIndex))
          /\ evaluated' = Append(evaluated,
                 [i \in 1..Len(names) |-> evaluateAssignee(names[i], memberIndex)])
    /\ UNCHANGED <<value, normalized, renormalized, plannerMembers, tasks, pc, memberIndex,
                   bucketVars>>

\* return processedTasks
Return ==
    /\ pc = "loop"
    /\ Len(processedTasks) = Len(tasks)
    /\ pc' = "done"
    /\ UNCHANGED <<value, normalized, renormalized, plannerMembers, tasks,
                   memberIndex, processedTasks, evaluated, bucketVars>>

Next == BuildMemberIndex \/ ProcessTask \/ Return

Spec == Init /\ [][Next]_vars

----------------------------------------------------------------------------
(* lookupAssignees on the two written forms of one person's name *)

NameLetters == {"a", "b", "c"}

RECURSIVE JoinWords(_)
JoinWords(letters) ==
    IF Len(letters) <= 1 THEN letters
    ELSE <<Head(letters), " ">> \o JoinWords(Tail(letters))

\* names of one to MaxWords one-letter words
PersonNames == {JoinWords(w) : w \in Str(NameLetters, MaxWords) \ {<<>>}}

\* "Last, First" and "Last,First"
LastFirst(last, first, sep) == last \o sep \o first

\* tasks[1] names a person "Last, First", tasks[2] names the same person "First Last"
InitSwap ==
    /\ plannerMembers \in Rosters
    /\ \E last \in PersonNames, first \in PersonNames, sep \in {<<",">>, <<",", " ">>} :
          tasks = <<Task(LastFirst(last, first, sep), <<>>), Task(Join2(first, last), <<>>)>>
    /\ pc = "start"
    /\ memberIndex = EmptyIndex
    /\ processedTasks = <<>>
    /\ evaluated = <<>>
    /\ NoBucketSession
    /\ value = <<>>
    /\ normalized = <<>>
    /\ renormalized = <<>>

SpecSwap == InitSwap /\ [][Next]_vars

----------------------------------------------------------------------------
(* lookupAssignees on one name given as a string and as a list of one *)

\* tasks[1] carries the name as its assignee string, tasks[2] as the only
\* entry of its assignees list
InitForms ==
    /\ plannerMembers \in Rosters
    /\ \E raw \in Str(NameChars, MaxRawLen) \ {<<>>} :
          tasks = <<Task(raw, <<>>), Task(<<>>, <<raw>>)>>
    /\ pc = "start"
    /\ memberIndex = EmptyIndex
    /\ processedTasks = <<>>
    /\ evaluated = <<>>
    /\ NoBucketSession
    /\ value = <<>>
    /\ normalized = <<>>
    /\ renormalized = <<>>

SpecForms == InitForms /\ [][Next]_vars

----------------------------------------------------------------------------
(* lookupAssignees on a roster with a name that contains another *)

TokenChars == {"a", "b", "c", " "}

\* a member whose displayName is the one word "ba", which contains the words
\* "a" and "b" (as "joanne" contains "ann")
Joanne == Member("u6", <<"b", "a">>, <<>>, <<>>, <<>>, <<>>, <<>>)

\* a member whose displayName normalizes to the empty string
Dash == Member("u7", <<"-">>, <<>>, <<>>, <<>>, <<>>, <<>>)

TokenPool == {AnnLee, AnnLee2, LeeAnn, Joanne, Dash}

InitTokens ==
    /\ plannerMembers \in Str(TokenPool, MaxRoster)
    /\ \E raw \in Str(TokenChars, MaxRawLen) : tasks = <<Task(raw, <<>>)>>
    /\ pc = "start"
    /\ memberIndex = EmptyIndex
    /\ processedTasks = <<>>
    /\ evaluated = <<>>
    /\ NoBucketSession
    /\ value = <<>>
    /\ normalized = <<>>
    /\ renormalized = <<>>

SpecTokens == InitTokens /\ [][Next]_vars

----------------------------------------------------------------------------
(* lookupAssignees on names written as an e-mail address *)

MailChars == {"a", "b", "A", "@", " "}

\* a member known by the userPrincipalName A@b only, whose displayName is "c"
Zed == Member("u4", <<"c">>, <<>>, <<>>, <<>>, <<>>, <<"A", "@", "b">>)

MailPool == {AnnLee, LeeAnn, Zed}

InitMail ==
    /\ plannerMembers \in Str(MailPool, MaxRoster)
    /\ \E raw \in Str(MailChars, MaxMailLen) : tasks = <<Task(raw, <<>>)>>
    /\ pc = "start"
    /\ memberIndex = EmptyIndex
    /\ processedTasks = <<>>
    /\ evaluated = <<>>
    /\ NoBucketSession
    /\ value = <<>>
    /\ normalized = <<>>
    /\ renormalized = <<>>

SpecMail == InitMail /\ [][Next]_vars

----------------------------------------------------------------------------
(* lookupAssignees on names with parentheticals *)

ParenChars == {"a", "b", "(", ")", " "}

\* a member whose displayName is the one word "A"
Acme == Member("u5", <<"A">>, <<>>, <<>>, <<>>, <<>>, <<>>)

ParenPool == {AnnLee, Acme}

InitParen ==
    /\ plannerMembers \in Str(ParenPool, MaxRoster)
    /\ \E raw \in Str(ParenChars, MaxParenLen) : tasks = <<Task(raw, <<>>)>>
    /\ pc = "start"
    /\ memberIndex = EmptyIndex
    /\ processedTasks = <<>>
    /\ evaluated = <<>>
    /\ NoBucketSession
    /\ value = <<>>
    /\ normalized = <<>>
    /\ renormalized = <<>>

SpecParen == InitParen /\ [][Next]_vars

----------------------------------------------------------------------------
(* lookupAssignees on names with commas *)

\* the words of an assignee cell: two letters and a parenthetical
CommaWords == {<<"a">>, <<"b">>, <<"(", "c", ")">>}

\* what stands between two words of the cell
Separators == {<<",">>, <<",", " ">>, <<" ">>}

RECURSIVE Joined(_, _)
Joined(words, seps) ==
    IF Len(words) = 1 THEN words[1]
    ELSE words[1] \o seps[1] \o Joined(Tail(words), Tail(seps))

\* assignee cells of two to MaxCommaWords words
CommaRaws ==
    UNION {{Joined(words, seps) : words \in [1..k -> CommaWords],
                                  seps \in [1..(k - 1) -> Separators]} :
           k \in 2..MaxCommaWords}

InitComma ==
    /\ plannerMembers \in Rosters
    /\ \E raw \in CommaRaws : tasks = <<Task(raw, <<>>)>>
    /\ pc = "start"
    /\ memberIndex = EmptyIndex
    /\ processedTasks = <<>>
    /\ evaluated = <<>>
    /\ NoBucketSession
    /\ value = <<>>
    /\ normalized = <<>>
    /\ renormalized = <<>>

SpecComma == InitComma /\ [][Next]_vars

----------------------------------------------------------------------------
(* A session's bucket requests: /api/lookup-buckets and /api/create-tasks *)

Planning == <<"P", "l", "a", "n", "n", "i", "n", "g">>
PlanningLower == <<"p", "l", "a", "n", "n", "i", "n", "g">>
PlanningUpper == <<"P", "L", "A", "N", "N", "I", "N", "G">>
Design == <<"D", "e", "s", "i", "g", "n">>
DesignTea == <<"D", "e", "s", "i", "g", "n", " ", "T", "e", "a">>
DesignTeam == <<"D", "e", "s", "i", "g", "n", " ", "T", "e", "a", "m">>
Des == <<"D", "e", "s">>
Constructor == <<"c", "o", "n", "s", "t", "r", "u", "c", "t", "o", "r">>

\* the buckets a plan may hold; b4 equals b1 ignoring case
BucketPool ==
    {Bucket("b1", Planning), Bucket("b2", Design), Bucket("b3", DesignTea),
     Bucket("b4", PlanningLower)}

\* what auth.getPlannerBuckets may return: bucket ids are unique in a plan
Snapshots == {bs \in Str(BucketPool, MaxBuckets) : NoRepeatedId(bs)}

\* the bucket cell of a spreadsheet row; <<>> is a row without one
Labels == {<<>>, PlanningUpper, DesignTeam, Des, Constructor}

BucketTask(label) ==
    IF label = <<>> THEN [title |-> "t"] ELSE [title |-> "t", bucketName |-> label]

BucketTaskLists == {[i \in 1..Len(ls) |-> BucketTask(ls[i])] : ls \in Str(Labels, MaxBucketTasks)}

\* the default bucket the user picks for /api/create-tasks
DefaultBucketIds == {"b0", "b1"}

InitBuckets ==
    /\ tasks \in BucketTaskLists
    /\ planBuckets \in Snapshots
    /\ pc = "session"
    /\ buckets = <<>>
    /\ enrichedTasks = <<>>
    /\ lookups = 0
    /\ bucketId = "undefined"
    /\ createdIn = <<>>
    /\ history = <<>>
    /\ creating = NoRequests
    /\ plannerMembers = <<>>
    /\ memberIndex = EmptyIndex
    /\ processedTasks = <<>>
    /\ evaluated = <<>>
    /\ value = <<>>
    /\ normalized = <<>>
    /\ renormalized = <<>>

\* a completed call: its task list, the roster or bucket snapshot it was given
\* and the list it returned
Call(name, ts, snapshot, result) ==
    [call |-> name, tasks |-> ts, snapshot |-> snapshot, result |-> result]

\* sessionData.enrichedTasks || sessionData.processedTasks
SessionTasks == IF enrichedTasks # <<>> THEN enrichedTasks[1] ELSE tasks

\* POST /api/lookup-buckets
LookupBuckets ==
    /\ pc = "session"
    /\ lookups < MaxLookups
    /\ buckets' = planBuckets
    /\ enrichedTasks' = <<lookupBuckets(SessionTasks, planBuckets)>>
    /\ lookups' = lookups + 1
    /\ history' = Append(history, Call("lookupBuckets", SessionTasks, planBuckets,
                                       lookupBuckets(SessionTasks, planBuckets)))
    /\ UNCHANGED <<value, normalized, renormalized, plannerMembers, tasks, pc, memberIndex,
                   processedTasks, evaluated, planBuckets, bucketId, createdIn, creating>>

\* between two requests the plan's buckets change: buckets are created or
\* removed, or the user selects another plan
ChangePlan ==
    /\ pc = "session"
    /\ lookups >= 1
    /\ lookups < MaxLookups
    /\ planBuckets' \in Snapshots \ {planBuckets}
    /\ UNCHANGED <<value, normalized, renormalized, plannerMembers, tasks, pc, memberIndex,
                   processedTasks, evaluated, buckets, enrichedTasks, lookups, bucketId,
                   createdIn, history, creating>>

\* POST /api/create-tasks with { planId, bucketId }
CreateTasks ==
    /\ pc = "session"
    /\ enrichedTasks # <<>>
    /\ \E default \in DefaultBucketIds :
          /\ bucketId' = default
          /\ createdIn' = [i \in 1..Len(enrichedTasks[1]) |->
                              taskBucketId(enrichedTasks[1][i], default)]
    /\ pc' = "created"
    /\ UNCHANGED <<value, normalized, renormalized, plannerMembers, tasks, memberIndex,
                   processedTasks, evaluated, planBuckets, buckets, enrichedTasks, lookups,
                   history, creating>>

NextBuckets == LookupBuckets \/ ChangePlan \/ CreateTasks

SpecBuckets == InitBuckets /\ [][NextBuckets]_vars

----------------------------------------------------------------------------
(* Bucket requests on a plan whose bucket names resemble each other *)

EsignTeam == <<"e", "s", "i", "g", "n", " ", "T", "e", "a", "m">>

\* against the label "Design Team": Design scores 6/11, Design Tea and
\* esign Team both 10/11
FuzzyPool == {Bucket("b2", Design), Bucket("b3", DesignTea), Bucket("b5", EsignTeam)}

FuzzySnapshots == {bs \in Str(FuzzyPool, MaxFuzzyBuckets) : NoRepeatedId(bs)}

FuzzyLabels == {DesignTeam, Des}

FuzzyTaskLists ==
    {[i \in 1..Len(ls) |-> BucketTask(ls[i])] : ls \in Str(FuzzyLabels, MaxBucketTasks)}

InitFuzzy ==
    /\ tasks \in FuzzyTaskLists
    /\ planBuckets \in FuzzySnapshots
    /\ pc = "session"
    /\ buckets = <<>>
    /\ enrichedTasks = <<>>
    /\ lookups = 0
    /\ bucketId = "undefined"
    /\ createdIn = <<>>
    /\ history = <<>>
    /\ creating = NoRequests
    /\ plannerMembers = <<>>
    /\ memberIndex = EmptyIndex
    /\ processedTasks = <<>>
    /\ evaluated = <<>>
    /\ value = <<>>
    /\ normalized = <<>>
    /\ renormalized = <<>>

SpecFuzzy == InitFuzzy /\ [][NextBuckets]_vars

----------------------------------------------------------------------------
(* A session that looks up both assignees and buckets *)

\* a parsed row: assignee fields and bucket cell
SessionTask(assignee, assignees, label) == Spread(Task(assignee, assignees), BucketTask(label))

SessionTasks1 ==
    {SessionTask(t.assignee, t.assignees, label) :
        t \in {Task(<<>>, <<>>), Task(<<"a", " ", "b">>, <<>>),
               Task(<<>>, << <<"a", " ", "b">>, <<"c">> >>)},
        label \in Labels}

SessionRosters == {<<>>, <<AnnLee>>, <<AnnLee, AnnLee2>>}

SessionSnapshots ==
    {<<>>, <<Bucket("b1", Planning)>>, <<Bucket("b2", Design), Bucket("b3", DesignTea)>>}

InitSession ==
    /\ tasks \in Str(SessionTasks1, MaxSessionTasks)
    /\ plannerMembers \in SessionRosters
    /\ planBuckets \in SessionSnapshots
    /\ pc = "session"
    /\ buckets = <<>>
    /\ enrichedTasks = <<>>
    /\ lookups = 0
    /\ bucketId = "undefined"
    /\ createdIn = <<>>
    /\ history = <<>>
    /\ creating = NoRequests
    /\ memberIndex = EmptyIndex
    /\ processedTasks = <<>>
    /\ evaluated = <<>>
    /\ value = <<>>
    /\ normalized = <<>>
    /\ renormalized = <<>>

\* the lookupAssignees calls completed so far
AssigneeRuns == SelectSeq(history, LAMBDA c : c.call = "lookupAssignees")

\* POST /api/lookup-assignees: fileParser.lookupAssignees(sessionData.processedTasks,
\* auth, accessToken, members) is entered with a new processedTasks list
RequestAssignees ==
    /\ pc = "session"
    /\ Len(AssigneeRuns) < MaxAssigneeRuns
    /\ pc' = "start"
    /\ processedTasks' = <<>>
    /\ evaluated' = <<>>
    /\ UNCHANGED <<value, normalized, renormalized, plannerMembers, tasks, memberIndex,
                   bucketVars>>

\* POST /api/lookup-assignees after the call: sessionData.enrichedTasks = enrichedTasks
StoreAssignees ==
    /\ pc = "done"
    /\ pc' = "session"
    /\ enrichedTasks' = <<processedTasks>>
    /\ history' = Append(history, Call("lookupAssignees", tasks, plannerMembers, processedTasks))
    /\ UNCHANGED <<value, normalized, renormalized, plannerMembers, tasks, memberIndex,
                   processedTasks, evaluated, planBuckets, buckets, lookups, bucketId,
                   createdIn, creating>>

NextSession ==
    \/ RequestAssignees
    \/ BuildMemberIndex
    \/ ProcessTask
    \/ Return
    \/ StoreAssignees
    \/ LookupBuckets
    \/ CreateTasks

SpecSession == InitSession /\ [][NextSession]_vars

----------------------------------------------------------------------------
(* FileParser.processData and POST /api/process-data *)

\* split(/[;,]/)
RECURSIVE SplitAny(_, _)
SplitAny(s, seps) ==
    IF \E i \in 1..Len(s) : s[i] \in seps
    THEN LET i == CHOOSE k \in 1..Len(s) :
                      s[k] \in seps /\ \A j \in 1..(k - 1) : s[j] \notin seps
         IN <<SubSeq(s, 1, i - 1)>> \o SplitAny(SubSeq(s, i + 1, Len(s)), seps)
    ELSE <<s>>

\* assigneeText.split(/[;,]/).map(a => a.trim()).filter(a => a)
AssigneeNames(assigneeText) ==
    SelectSeq([i \in 1..Len(SplitAny(assigneeText, {";", ","})) |->
                  Trim(SplitAny(assigneeText, {";", ","})[i])],
              LAMBDA a : a # <<>>)

\* a row of the parsed sheet, by mapped column; an empty cell is <<>>
Row(title, assignee, bucketName) ==
    [title |-> title, assignee |-> assignee, bucketName |-> bucketName]

\* the assignee fields of the task of a row
AssigneeOf(row) ==
    IF row.assignee # <<>> /\ Trim(row.assignee) # <<>>
    THEN Task(Trim(row.assignee), AssigneeNames(Trim(row.assignee)))
    ELSE Task(<<>>, <<>>)

\* the bucket field of the task of a row
BucketOf(row) ==
    IF row.bucketName # <<>> THEN [bucketName |-> Trim(row.bucketName)]
    ELSE [title |-> Trim(row.title)]

\* the task of a row that has a title
processRow(row) == Spread(Spread([title |-> Trim(row.title)], AssigneeOf(row)), BucketOf(row))

\* rows without a title are skipped
processData(data) ==
    [i \in 1..Len(SelectSeq(data, LAMBDA row : Trim(row.title) # <<>>)) |->
        processRow(SelectSeq(data, LAMBDA row : Trim(row.title) # <<>>)[i])]

\* what stands between two words of an assignee cell
CellSeparators == {<<",">>, <<",", " ">>, <<";">>, <<" ">>}

\* assignee cells of up to MaxCellWords one-letter words
AssigneeCells ==
    {<<>>} \cup
    UNION {{Joined(words, seps) : words \in [1..k -> {<<"a">>, <<"b">>}],
                                  seps \in [1..(k - 1) -> CellSeparators]} :
           k \in 1..MaxCellWords}

\* parsed sheets whose rows have an assignee cell, and a row without a title
AssigneeSheets ==
    Str({Row(<<"t">>, cell, <<>>) : cell \in AssigneeCells}
            \cup {Row(<<" ">>, <<"a">>, <<>>)}, MaxRows)

\* parsed sheets whose rows have a bucket cell
BucketSheets ==
    Str({Row(<<"t">>, <<>>, label) : label \in {<<>>, PlanningUpper, Des}}, MaxRows)

\* POST /api/process-data: sessionData.processedTasks = tasks
ProcessData(sheets) ==
    /\ pc \in {"upload", "session"}
    /\ \E data \in sheets : tasks' = processData(data)
    /\ pc' = "session"
    /\ UNCHANGED <<value, normalized, renormalized, plannerMembers, memberIndex,
                   processedTasks, evaluated, bucketVars>>

\* a signed-in session that has parsed a file and processed no data yet
InitUploaded ==
    /\ tasks = <<>>
    /\ pc = "upload"
    /\ memberIndex = EmptyIndex
    /\ processedTasks = <<>>
    /\ evaluated = <<>>
    /\ buckets = <<>>
    /\ enrichedTasks = <<>>
    /\ lookups = 0
    /\ bucketId = "undefined"
    /\ createdIn = <<>>
    /\ history = <<>>
    /\ creating = NoRequests
    /\ value = <<>>
    /\ normalized = <<>>
    /\ renormalized = <<>>

\* process-data and lookup-assignees on sheets with assignee cells
InitRow ==
    /\ InitUploaded
    /\ plannerMembers \in {<<AnnLee>>, <<AnnLee, LeeAnn>>, <<LeeAnn>>}
    /\ planBuckets = <<>>

ProcessAssigneeData == ProcessData(AssigneeSheets)

NextRow ==
    \/ ProcessAssigneeData
    \/ RequestAssignees
    \/ BuildMemberIndex
    \/ ProcessTask
    \/ Return
    \/ StoreAssignees

SpecRow == InitRow /\ [][NextRow]_vars

\* process-data, lookup-buckets and create-tasks on sheets with bucket cells
InitUpload ==
    /\ InitUploaded
    /\ plannerMembers = <<>>
    /\ planBuckets \in {<<>>, <<Bucket("b1", Planning)>>, <<Bucket("b2", Design)>>}

ProcessBucketData == ProcessData(BucketSheets)

NextUpload == ProcessBucketData \/ LookupBuckets \/ CreateTasks

SpecUpload == InitUpload /\ [][NextUpload]_vars

----------------------------------------------------------------------------
(* POST /api/buckets/create *)

\* new Set(existing.map(b => (b.name || "").toLowerCase()))
existingLower(existing) == {toLowerCase(existing[i].name) : i \in 1..Len(existing)}

\* bucketNames.map(n => n.trim()).filter(n => n.length > 0 && !existingLower.has(n.toLowerCase()))
toCreate(bucketNames, existing) ==
    SelectSeq([i \in 1..Len(bucketNames) |-> Trim(bucketNames[i])],
              LAMBDA n : Len(n) > 0 /\ toLowerCase(n) \notin existingLower(existing))

\* the ids Graph gives to new buckets, in order of creation
NewBucketIds == <<"n1", "n2", "n3", "n4", "n5", "n6", "n7", "n8", "n9", "n10", "n11", "n12">>

\* the names a request may ask for
CreateNames == {<<"Q">>, <<"q">>, <<"D">>, <<" ">>}

\* bucketNames of a request: a list that is not empty
CreateNameLists == Str(CreateNames, MaxCreateNames) \ {<<>>}

\* the request has read the plan's buckets and filtered its names
ReadExisting(r) ==
    /\ creating[r].pc = "idle"
    /\ \E bucketNames \in CreateNameLists :
          creating' = [creating EXCEPT ![r] =
                          [pc |-> "creating", toCreate |-> toCreate(bucketNames, planBuckets)]]
    /\ UNCHANGED <<value, normalized, renormalized, plannerMembers, tasks, pc, memberIndex,
                   processedTasks, evaluated, planBuckets, buckets, enrichedTasks, lookups,
                   bucketId, createdIn, history>>

\* one iteration of for (const name of toCreate): auth.createBucket adds the
\* bucket to the plan, or fails and returns null
CreateBucket(r) ==
    /\ creating[r].pc = "creating"
    /\ creating[r].toCreate # <<>>
    /\ Len(planBuckets) < Len(NewBucketIds)
    /\ \/ planBuckets' = Append(planBuckets,
                              Bucket(NewBucketIds[Len(planBuckets) + 1],
                                     Head(creating[r].toCreate)))
       \/ planBuckets' = planBuckets
    /\ creating' = [creating EXCEPT ![r].toCreate = Tail(creating[r].toCreate)]
    /\ UNCHANGED <<value, normalized, renormalized, plannerMembers, tasks, pc, memberIndex,
                   processedTasks, evaluated, buckets, enrichedTasks, lookups,
                   bucketId, createdIn, history>>

\* the request answers with the plan's buckets
ReturnBuckets(r) ==
    /\ creating[r].pc = "creating"
    /\ creating[r].toCreate = <<>>
    /\ creating' = [creating EXCEPT ![r].pc = "done"]
    /\ UNCHANGED <<value, normalized, renormalized, plannerMembers, tasks, pc, memberIndex,
                   processedTasks, evaluated, planBuckets, buckets, enrichedTasks, lookups,
                   bucketId, createdIn, history>>

\* a plan whose bucket names are unique ignoring case, and no request yet
InitCreate ==
    /\ planBuckets \in {<<>>, <<Bucket("b1", <<"Q">>)>>,
                         <<Bucket("b1", <<"Q">>), Bucket("b2", <<"D">>)>>}
    /\ creating = NoRequests
    /\ tasks = <<>>
    /\ pc = "session"
    /\ plannerMembers = <<>>
    /\ memberIndex = EmptyIndex
    /\ processedTasks = <<>>
    /\ evaluated = <<>>
    /\ buckets = <<>>
    /\ enrichedTasks = <<>>
    /\ lookups = 0
    /\ bucketId = "undefined"
    /\ createdIn = <<>>
    /\ history = <<>>
    /\ value = <<>>
    /\ normalized = <<>>
    /\ renormalized = <<>>

NextCreate == \E r \in 1..MaxRequests : ReadExisting(r) \/ CreateBucket(r) \/ ReturnBuckets(r)

SpecCreate == InitCreate /\ [][NextCreate]_vars

----------------------------------------------------------------------------
(* normalizeKey on its own *)

InitNorm ==
    /\ value \in Str(NormChars, MaxNormLen)
    /\ pc = "input"
    /\ normalized = <<>>
    /\ renormalized = <<>>
    /\ plannerMembers = <<>>
    /\ tasks = <<>>
    /\ memberIndex = EmptyIndex
    /\ processedTasks = <<>>
    /\ evaluated = <<>>
    /\ NoBucketSession

Normalize ==
    /\ pc = "input"
    /\ normalized' = normalizeKey(value)
    /\ pc' = "once"
    /\ UNCHANGED <<value, renormalized, plannerMembers, tasks, memberIndex,
                   processedTasks, evaluated, bucketVars>>

NormalizeAgain ==
    /\ pc = "once"
    /\ renormalized' = normalizeKey(normalized)
    /\ pc' = "twice"
    /\ UNCHANGED <<value, normalized, plannerMembers, tasks, memberIndex,
                   processedTasks, evaluated, bucketVars>>

NextNorm == Normalize \/ NormalizeAgain

SpecNorm == InitNorm /\ [][NextNorm]_vars

----------------------------------------------------------------------------
(* Vocabulary of the properties *)

\* the three shapes of a result of evaluateAssignee
IsResolved(r) == Len(r.users) = 1 /\ r.candidates = <<>> /\ ~r.needsReview
IsAmbiguous(r) == r.users = <<>> /\ Len(r.candidates) >= 1 /\ r.needsReview
IsUnresolved(r) == r.users = <<>> /\ r.candidates = <<>> /\ r.needsReview

\* the (task, name) positions lookupAssignees has evaluated so far
Evaluated ==
    UNION {{<<i, j>> : j \in 1..Len(namesOf(tasks[i]))} : i \in 1..Len(processedTasks)}

NameAt(p) == namesOf(tasks[p[1]])[p[2]]
OutcomeAt(p) == evaluated[p[1]][p[2]]

\* ids of the members filed in keyMap under the key k
IdsUnderKey(k) == Ids(MapGet(memberIndex.keyMap, k))

\* ids of the members filed in keyMap under any key generated for the name
KeyHitIds(name) == UNION {IdsUnderKey(k) : k \in Range(generateAssigneeKeys(name).keys)}

\* ids of the members whose searchText contains every token of the name
QualifierIds(name) ==
    LET tokens == generateAssigneeKeys(name).tokens
    IN {memberIndex.entries[e].member.id : e \in
           {e \in 1..Len(memberIndex.entries) :
               \A t \in 1..Len(tokens) :
                   Includes(memberIndex.entries[e].searchText, tokens[t])}}

\* the first roster member with the given id
FirstWithId(id) ==
    plannerMembers[CHOOSE n \in 1..Len(plannerMembers) :
        plannerMembers[n].id = id /\ \A l \in 1..(n - 1) : plannerMembers[l].id # id]

IsBlank(name) == \A i \in 1..Len(name) : IsSpace(name[i])

----------------------------------------------------------------------------
(* C1 *)

\* no leading space, no trailing space, no two spaces in a row, only [a-z0-9 ]
IsCleanKey(k) ==
    /\ \A i \in 1..Len(k) : IsAZ09(k[i]) \/ k[i] = " "
    /\ k # <<>> => k[1] # " " /\ k[Len(k)] # " "
    /\ \A i \in 1..(Len(k) - 1) : ~(k[i] = " " /\ k[i + 1] = " ")

\* C1: normalizeKey is idempotent, normalizeKey(normalizeKey(s)) = normalizeKey(s)
\* for every string s, and its result has no leading or trailing space, no two
\* consecutive spaces and no character outside [a-z0-9 ].
C1_NormalizeIdempotent ==
    /\ pc \in {"once", "twice"} => IsCleanKey(normalized)
    /\ pc = "twice" => renormalized = normalized

\* an input with marks, capitals and separators has been normalized twice
C1_Witness ==
    /\ pc = "twice"
    /\ " " \in Range(normalized)
    /\ normalized # value
    /\ \E i \in 1..Len(value) : ~IsAZ09(value[i]) /\ value[i] # " "

----------------------------------------------------------------------------
(* C2 *)

\* C2: for every roster, an empty or whitespace-only raw assignee name produces
\* no keys and no tokens in generateAssigneeKeys, findMemberMatches returns no
\* member for it, and its outcome is Unresolved with needsReview true.
C2_BlankNameNeverMatches ==
    /\ pc # "start" =>
          \A i \in 1..Len(tasks) : \A name \in Range(tasks[i].assignees) \cup {tasks[i].assignee} :
              IsBlank(name) =>
                  /\ generateAssigneeKeys(name) = [keys |-> <<>>, tokens |-> <<>>]
                  /\ findMemberMatches(name, memberIndex) = <<>>
    /\ \A p \in Evaluated : IsBlank(NameAt(p)) => IsUnresolved(OutcomeAt(p))
    /\ \A i \in 1..Len(processedTasks) :
          (namesOf(tasks[i]) # <<>> /\ \A j \in 1..Len(namesOf(tasks[i])) : IsBlank(namesOf(tasks[i])[j]))
              => /\ processedTasks[i].assigneeUsers = <<>>
                 /\ processedTasks[i].assigneeCandidates = <<>>
                 /\ processedTasks[i].assigneeNeedsReview

\* a whitespace-only name has been evaluated against a roster with members
C2_Witness ==
    /\ pc = "done"
    /\ plannerMembers # <<>>
    /\ \E p \in Evaluated :
          /\ NameAt(p) # <<>>
          /\ IsBlank(NameAt(p))
          /\ IsUnresolved(OutcomeAt(p))

----------------------------------------------------------------------------
(* C3 *)

\* C3: when the members found in keyMap under the keys generated for a raw name
\* have exactly one distinct id, the outcome for that name is Resolved with
\* exactly that member: users = [member], no candidates, needsReview false; a
\* task with that single assignee gets assigneeUsers = [member].
C3_UniqueKeyHitResolves ==
    /\ \A p \in Evaluated :
          Cardinality(KeyHitIds(NameAt(p))) = 1 =>
              /\ IsResolved(OutcomeAt(p))
              /\ OutcomeAt(p).users =
                    <<Tagged(FirstWithId(CHOOSE id \in KeyHitIds(NameAt(p)) : TRUE), NameAt(p))>>
    /\ \A i \in 1..Len(processedTasks) :
          (tasks[i].assignees = <<>> /\ tasks[i].assignee # <<>>
             /\ Cardinality(KeyHitIds(tasks[i].assignee)) = 1) =>
              /\ processedTasks[i].assigneeUsers = evaluated[i][1].users
              /\ Len(processedTasks[i].assigneeUsers) = 1
              /\ processedTasks[i].assigneeCandidates = <<>>
              /\ ~processedTasks[i].assigneeNeedsReview
              /\ ~processedTasks[i].assigneeLookupFailed

\* the sole roster member is named "a b" and the task's assignee is "a b"
C3_Witness ==
    /\ pc = "done"
    /\ Len(plannerMembers) = 1
    /\ Len(tasks) = 1
    /\ tasks[1].assignees = <<>>
    /\ tasks[1].assignee = <<"a", " ", "b">>
    /\ normalizeKey(plannerMembers[1].displayName) = <<"a", " ", "b">>
    /\ Ids(processedTasks[1].assigneeUsers) = {plannerMembers[1].id}

----------------------------------------------------------------------------
(* C4 *)

\* where a member id is first seen when the keys of a name are looked up in
\* generation order: the index of the first key filing it, then its first
\* position in that key's list
FirstKeyWith(keys, id) ==
    CHOOSE k \in 1..Len(keys) :
        id \in IdsUnderKey(keys[k]) /\ \A l \in 1..(k - 1) : id \notin IdsUnderKey(keys[l])

FirstPosIn(list, id) ==
    CHOOSE n \in 1..Len(list) : list[n].id = id /\ \A l \in 1..(n - 1) : list[l].id # id

SeenBefore(keys, id1, id2) ==
    LET k1 == FirstKeyWith(keys, id1)
        k2 == FirstKeyWith(keys, id2)
    IN \/ k1 < k2
       \/ /\ k1 = k2
          /\ FirstPosIn(MapGet(memberIndex.keyMap, keys[k1]), id1)
                < FirstPosIn(MapGet(memberIndex.keyMap, keys[k1]), id2)

SomeKeyShared(name) ==
    \E k \in Range(generateAssigneeKeys(name).keys) : Cardinality(IdsUnderKey(k)) >= 2

\* C4: when two or more roster members with distinct ids share a key generated
\* for a raw name, the outcome is Ambiguous: no user, needsReview true, every
\* member found under the generated keys is a candidate exactly once, and the
\* candidates are in first-seen order (keys in generation order, members within
\* a key in roster order).
C4_SharedKeyIsAmbiguous ==
    \A p \in Evaluated :
        SomeKeyShared(NameAt(p)) =>
            LET r == OutcomeAt(p)
                keys == generateAssigneeKeys(NameAt(p)).keys
            IN /\ IsAmbiguous(r)
               /\ Ids(r.candidates) = KeyHitIds(NameAt(p))
               /\ NoRepeatedId(r.candidates)
               /\ \A i, j \in 1..Len(r.candidates) :
                     i < j => SeenBefore(keys, r.candidates[i].id, r.candidates[j].id)
               /\ \A i \in 1..Len(r.candidates) :
                     r.candidates[i] = Tagged(FirstWithId(r.candidates[i].id), NameAt(p))

\* two members called "a b" with different ids, and the name "a b"
C4_Witness ==
    /\ pc = "done"
    /\ Len(tasks) = 1
    /\ tasks[1] = Task(<<"a", " ", "b">>, <<>>)
    /\ plannerMembers = <<AnnLee, AnnLee2>>
    /\ Len(processedTasks[1].assigneeCandidates) = 2
    /\ processedTasks[1].assigneeUsers = <<>>
    /\ processedTasks[1].assigneeNeedsReview

----------------------------------------------------------------------------
(* C5 *)

NoKeyHit(name) == KeyHitIds(name) = {}

UniqueFallback(name) ==
    /\ NoKeyHit(name)
    /\ generateAssigneeKeys(name).tokens # <<>>
    /\ Cardinality(QualifierIds(name)) = 1

\* C5 as stated: when no generated key hits keyMap and the token-containment
\* scan finds exactly one qualifying member, the outcome is Ambiguous with that
\* member as the only candidate and needsReview true, never Resolved.
C5_Original ==
    \A p \in Evaluated :
        UniqueFallback(NameAt(p)) =>
            /\ IsAmbiguous(OutcomeAt(p))
            /\ Ids(OutcomeAt(p).candidates) = QualifierIds(NameAt(p))

\* C5 as amended: when no generated key hits keyMap and the token-containment
\* scan finds exactly one qualifying member, the outcome is Resolved with that
\* member (one user, no candidates, needsReview false); only two or more
\* qualifying members give Ambiguous.
C5_UniqueFallbackResolves ==
    \A p \in Evaluated :
        /\ UniqueFallback(NameAt(p)) =>
              /\ IsResolved(OutcomeAt(p))
              /\ Ids(OutcomeAt(p).users) = QualifierIds(NameAt(p))
        /\ (NoKeyHit(NameAt(p)) /\ generateAssigneeKeys(NameAt(p)).tokens # <<>>
              /\ Cardinality(QualifierIds(NameAt(p))) >= 2) =>
              /\ IsAmbiguous(OutcomeAt(p))
              /\ Ids(OutcomeAt(p).candidates) = QualifierIds(NameAt(p))

\* the name "a" is no key of the only member, whose searchText "a b" contains it
C5_Witness ==
    /\ pc = "done"
    /\ plannerMembers = <<AnnLee2>>
    /\ Len(tasks) = 1
    /\ tasks[1] = Task(<<"a">>, <<>>)
    /\ UniqueFallback(<<"a">>)
    /\ Ids(processedTasks[1].assigneeUsers) = {"u2"}
    /\ ~processedTasks[1].assigneeNeedsReview

----------------------------------------------------------------------------
(* C6 *)

RECURSIVE Flatten(_)
Flatten(lists) == IF lists = <<>> THEN <<>> ELSE Head(lists) \o Flatten(Tail(lists))

\* positions of the names of processed task i, in order, whose outcome satisfies P
Positions(i, P(_)) ==
    SelectSeq([j \in 1..Len(evaluated[i]) |-> j], LAMBDA j : P(evaluated[i][j]))

NotResolved(r) == ~IsResolved(r)

NamesWhere(i, P(_)) ==
    LET pos == Positions(i, P) IN [n \in 1..Len(pos) |-> tasks[i].assignees[pos[n]]]

UsersWhere(i, P(_)) ==
    LET pos == Positions(i, P) IN Flatten([n \in 1..Len(pos) |-> evaluated[i][pos[n]].users])

CandidatesWhere(i, P(_)) ==
    LET pos == Positions(i, P)
    IN Flatten([n \in 1..Len(pos) |-> evaluated[i][pos[n]].candidates])

IsListTask(i) == Len(tasks[i].assignees) > 0

\* C6 as stated: for a task with several assignee names, assigneeUsers holds
\* the members of exactly the Resolved names, assigneeLookupFailedList holds
\* exactly the Unresolved names, and an Ambiguous name contributes only to
\* assigneeCandidates.
C6_Original ==
    \A i \in 1..Len(processedTasks) :
        IsListTask(i) =>
            /\ processedTasks[i].assigneeUsers = UsersWhere(i, IsResolved)
            /\ processedTasks[i].assigneeLookupFailedList = NamesWhere(i, IsUnresolved)
            /\ processedTasks[i].assigneeCandidates = CandidatesWhere(i, IsAmbiguous)

\* C6 as amended: for a task with several assignee names, assigneeUsers holds
\* the members of exactly the Resolved names, assigneeCandidates the candidates
\* of exactly the Ambiguous names, and assigneeLookupFailedList every name that
\* was not Resolved, Ambiguous names as well as Unresolved ones, each list in
\* the order of the names; needsReview is set when that list is not empty.
C6_MergedPerName ==
    \A i \in 1..Len(processedTasks) :
        IsListTask(i) =>
            /\ processedTasks[i].assigneeUsers = UsersWhere(i, IsResolved)
            /\ processedTasks[i].assigneeLookupFailedList = NamesWhere(i, NotResolved)
            /\ processedTasks[i].assigneeCandidates = CandidatesWhere(i, IsAmbiguous)
            /\ processedTasks[i].assigneeNeedsReview
                  = (processedTasks[i].assigneeLookupFailedList # <<>>)

\* "a b, c" against a roster holding only Ann Lee: Ann matched, "c" failed
C6_Witness ==
    /\ pc = "done"
    /\ plannerMembers = <<AnnLee>>
    /\ Len(tasks) = 1
    /\ tasks[1].assignees = << <<"a", " ", "b">>, <<"c">> >>
    /\ Ids(processedTasks[1].assigneeUsers) = {"u1"}
    /\ Len(processedTasks[1].assigneeUsers) = 1
    /\ processedTasks[1].assigneeLookupFailedList = << <<"c">> >>
    /\ processedTasks[1].assigneeNeedsReview

----------------------------------------------------------------------------
(* C7 *)

\* C7: for every task with assignee names, assigneeNeedsReview is set if and
\* only if at least one of its names had outcome Ambiguous or Unresolved; a
\* task whose names all Resolved never has it set.
C7_NeedsReviewIffSomeNameFails ==
    \A i \in 1..Len(processedTasks) :
        namesOf(tasks[i]) # <<>> =>
            (processedTasks[i].assigneeNeedsReview
                <=> \E j \in 1..Len(evaluated[i]) :
                        IsAmbiguous(evaluated[i][j]) \/ IsUnresolved(evaluated[i][j]))

\* a list task whose first name fails and whose last name resolves, and
\* one whose names all resolve
C7_Witness ==
    /\ pc = "done"
    /\ Len(tasks) = 1
    /\ Len(tasks[1].assignees) = 2
    /\ IsUnresolved(evaluated[1][1])
    /\ IsResolved(evaluated[1][2])
    /\ processedTasks[1].assigneeNeedsReview

C7_WitnessAllResolved ==
    /\ pc = "done"
    /\ Len(tasks) = 1
    /\ Len(tasks[1].assignees) = 2
    /\ IsResolved(evaluated[1][1])
    /\ IsResolved(evaluated[1][2])
    /\ ~processedTasks[1].assigneeNeedsReview

----------------------------------------------------------------------------
(* C8 *)

\* C8: in every result of lookupAssignees no member id appears more than once
\* in a task's assigneeUsers and none more than once in its assigneeCandidates.
C8_NoMemberTwice ==
    \A i \in 1..Len(processedTasks) :
        /\ NoRepeatedId(processedTasks[i].assigneeUsers)
        /\ NoRepeatedId(processedTasks[i].assigneeCandidates)

----------------------------------------------------------------------------
(* C9 *)

\* C9: for every raw name and roster evaluateAssignee returns exactly one of
\* three shapes, Resolved (one user, no candidates, needsReview false),
\* Ambiguous (no user, at least one candidate, needsReview true) or Unresolved
\* (no user, no candidate, needsReview true); users and candidates are never
\* both non-empty.
C9_ExactlyOneShape ==
    \A p \in Evaluated :
        LET r == OutcomeAt(p)
            n == Cardinality({P \in {"R", "A", "U"} :
                     \/ P = "R" /\ IsResolved(r)
                     \/ P = "A" /\ IsAmbiguous(r)
                     \/ P = "U" /\ IsUnresolved(r)})
        IN /\ n = 1
           /\ r.users = <<>> \/ r.candidates = <<>>
           /\ r = evaluateAssignee(NameAt(p), memberIndex)

\* one run has evaluated an Ambiguous name and an Unresolved name, and the
\* first name alone is Resolved against the first member of the roster alone
C9_Witness ==
    /\ pc = "done"
    /\ Len(plannerMembers) = 2
    /\ Len(tasks) = 1
    /\ Len(tasks[1].assignees) = 2
    /\ IsAmbiguous(evaluated[1][1])
    /\ IsUnresolved(evaluated[1][2])
    /\ IsResolved(evaluateAssignee(tasks[1].assignees[1],
                                   buildMemberIndex(<<plannerMembers[1]>>)))

----------------------------------------------------------------------------
(* C10 *)

\* the raw name is "Last, First" with one word on each side of the comma
OneWordEach(raw) ==
    /\ Len(Split(raw, ",")) = 2
    /\ Len(Tokens(Split(raw, ",")[1])) = 1
    /\ Len(Tokens(Split(raw, ",")[2])) = 1

\* both forms have been matched
BothFormsDone == Len(processedTasks) = 2

\* C10 as stated: a raw name in "Last, First" form passed to the matcher as one
\* name resolves to the same member as its "First Last" form whenever that form
\* resolves: findMemberMatches returns the same member set for both.
C10_Original ==
    (BothFormsDone /\ IsResolved(evaluated[2][1])) =>
        /\ Ids(findMemberMatches(tasks[1].assignee, memberIndex))
              = Ids(findMemberMatches(tasks[2].assignee, memberIndex))
        /\ Ids(processedTasks[1].assigneeUsers) = Ids(processedTasks[2].assigneeUsers)

\* C10 as amended: a raw name "Last, First" whose Last and First are one word
\* each, passed to the matcher as one name, gets from findMemberMatches the same
\* member set as its "First Last" form, so it resolves to the same member
\* whenever that form resolves.
C10_OneWordSwapSameMembers ==
    (BothFormsDone /\ OneWordEach(tasks[1].assignee)) =>
        /\ Ids(findMemberMatches(tasks[1].assignee, memberIndex))
              = Ids(findMemberMatches(tasks[2].assignee, memberIndex))
        /\ Ids(processedTasks[1].assigneeUsers) = Ids(processedTasks[2].assigneeUsers)
        /\ Ids(processedTasks[1].assigneeCandidates)
              = Ids(processedTasks[2].assigneeCandidates)
        /\ IsResolved(evaluated[2][1]) =>
              /\ IsResolved(evaluated[1][1])
              /\ evaluated[1][1].users[1].id = evaluated[2][1].users[1].id

\* "b, a" and "a b" both resolved to the only member, who is called "A B"
C10_Witness ==
    /\ pc = "done"
    /\ plannerMembers = <<AnnLee2>>
    /\ tasks[1].assignee = <<"b", ",", " ", "a">>
    /\ tasks[2].assignee = <<"a", " ", "b">>
    /\ Ids(processedTasks[1].assigneeUsers) = {"u2"}
    /\ Ids(processedTasks[2].assigneeUsers) = {"u2"}

----------------------------------------------------------------------------
(* C11 *)

\* the raw name as an address: name.trim() in lower case
AddressOf(name) == toLowerCase(Trim(name))

\* the member's mail or userPrincipalName is the address e, ignoring case
HasAddress(member, e) ==
    \/ member.mail # <<>> /\ toLowerCase(member.mail) = e
    \/ member.userPrincipalName # <<>> /\ toLowerCase(member.userPrincipalName) = e

\* C11: a raw name that is an e-mail address equal, after trim and lower-casing,
\* to a roster member's mail or userPrincipalName always has that member among
\* the members returned by findMemberMatches, whatever the member's displayName;
\* it is Resolved to that member when no other member shares a generated key.
C11_EmailLiteralMatches ==
    \A p \in Evaluated : \A n \in 1..Len(plannerMembers) :
        ("@" \in Range(NameAt(p)) /\ HasAddress(plannerMembers[n], AddressOf(NameAt(p)))) =>
            /\ plannerMembers[n].id \in Ids(findMemberMatches(NameAt(p), memberIndex))
            /\ KeyHitIds(NameAt(p)) = {plannerMembers[n].id} =>
                  /\ IsResolved(OutcomeAt(p))
                  /\ OutcomeAt(p).users[1].id = plannerMembers[n].id

\* " A@b" resolved to the member whose userPrincipalName is A@b and whose
\* displayName is "c"
C11_Witness ==
    /\ pc = "done"
    /\ plannerMembers = <<Zed>>
    /\ tasks[1].assignee = <<" ", "A", "@", "b">>
    /\ normalizeKey(Zed.displayName) \notin Range(generateAssigneeKeys(tasks[1].assignee).keys)
    /\ Ids(processedTasks[1].assigneeUsers) = {"u4"}
    /\ ~processedTasks[1].assigneeNeedsReview

----------------------------------------------------------------------------
(* Vocabulary of the bucket properties *)

EqualIgnoringCase(a, b) == toLowerCase(a) = toLowerCase(b)

\* the buckets of the snapshot named like the label, ignoring case
NamedLike(label) == {n \in 1..Len(buckets) : EqualIgnoringCase(buckets[n].name, label)}

\* the tasks the latest lookupBuckets call returned
Returned == IF enrichedTasks = <<>> THEN <<>> ELSE enrichedTasks[1]

HasInfo(task) == Has(task, "bucketInfo")
HasFailed(task) == Has(task, "bucketLookupFailed")
ExactReported(task) == HasInfo(task) /\ task.bucketInfo.exactMatch
FuzzyReported(task) == HasInfo(task) /\ ~task.bucketInfo.exactMatch

\* bucketInfo carries the id and the name of the n-th bucket of the snapshot
InfoOf(task, n) ==
    task.bucketInfo.id = buckets[n].id /\ task.bucketInfo.name = buckets[n].name

\* the first lookupBuckets call of the session has returned: its input tasks
\* carried no bucket result
FirstLookupDone == lookups = 1

----------------------------------------------------------------------------
(* C12 *)

\* C12: lookupBuckets returns an exact match (bucketInfo.exactMatch = true, id
\* and name of the existing bucket) for a label if and only if some bucket in
\* the snapshot has a name equal to the label ignoring case; an exact match is
\* never reported for a label that equals no snapshot bucket name ignoring case.
C12_ExactIffEqualIgnoringCase ==
    FirstLookupDone =>
        \A i \in 1..Len(Returned) :
            LabelOf(Returned[i]) # <<>> =>
                /\ ExactReported(Returned[i]) <=> NamedLike(LabelOf(Returned[i])) # {}
                /\ ExactReported(Returned[i]) =>
                      \E n \in NamedLike(LabelOf(Returned[i])) : InfoOf(Returned[i], n)

----------------------------------------------------------------------------
(* C13 *)

\* min(len)/max(len) of the label and the n-th bucket name of the snapshot
Score(label, n) == Ratio(Len(label), Len(buckets[n].name))

\* the buckets of the snapshot in a containment relation with the label, in
\* lower case, whose score is above one half
Qualifiers(label) ==
    {n \in 1..Len(buckets) :
        /\ Contained(toLowerCase(label), toLowerCase(buckets[n].name))
        /\ 2 * Score(label, n)[1] > Score(label, n)[2]}

\* the returned bucket is a qualifier that no other qualifier outscores
BestQualifier(task) ==
    \E n \in Qualifiers(LabelOf(task)) :
        /\ InfoOf(task, n)
        /\ \A m \in Qualifiers(LabelOf(task)) :
              ~Above(Score(LabelOf(task), m), Score(LabelOf(task), n))

\* C13: for a label with no case-insensitive exact match, lookupBuckets returns
\* a fuzzy match (exactMatch = false) exactly when some existing bucket name is
\* in a containment relation with the label and 2*min(len) > max(len); the
\* bucket returned then has the highest such score among the qualifying buckets
\* of the snapshot; otherwise, a best score of one half or less included, the
\* label gets no match.
C13_FuzzyAboveHalf ==
    FirstLookupDone =>
        \A i \in 1..Len(Returned) :
            (LabelOf(Returned[i]) # <<>> /\ NamedLike(LabelOf(Returned[i])) = {}) =>
                /\ FuzzyReported(Returned[i]) <=> Qualifiers(LabelOf(Returned[i])) # {}
                /\ FuzzyReported(Returned[i]) => BestQualifier(Returned[i])
                /\ Qualifiers(LabelOf(Returned[i])) = {} =>
                      HasFailed(Returned[i]) /\ ~HasInfo(Returned[i])

\* the same for the labels that are no inherited property name
C13_FuzzyAboveHalfOwnKeys ==
    FirstLookupDone =>
        \A i \in 1..Len(Returned) :
            (/\ LabelOf(Returned[i]) # <<>>
             /\ NamedLike(LabelOf(Returned[i])) = {}
             /\ toLowerCase(LabelOf(Returned[i])) \notin ObjectPrototypeKeys) =>
                /\ FuzzyReported(Returned[i]) <=> Qualifiers(LabelOf(Returned[i])) # {}
                /\ FuzzyReported(Returned[i]) => BestQualifier(Returned[i])
                /\ Qualifiers(LabelOf(Returned[i])) = {} =>
                      HasFailed(Returned[i]) /\ ~HasInfo(Returned[i])

\* "Design Team" got the fuzzy match Design Tea (10/11), listed after Design
\* (6/11), and "Des" got no match against Design (3/6)
C13_WitnessOwnKeys ==
    /\ FirstLookupDone
    /\ buckets = <<Bucket("b2", Design), Bucket("b3", DesignTea)>>
    /\ Len(Returned) = 2
    /\ LabelOf(Returned[1]) = DesignTeam
    /\ FuzzyReported(Returned[1])
    /\ Returned[1].bucketInfo.id = "b3"
    /\ LabelOf(Returned[2]) = Des
    /\ HasFailed(Returned[2])

----------------------------------------------------------------------------
(* C14 *)

\* the label matched a bucket of the snapshot, exactly or above the threshold
LabelMatched(label) == NamedLike(label) # {} \/ Qualifiers(label) # {}

\* the returned task is the input task with one bucket result added
ResultShape(task, input) ==
    /\ \A f \in DOMAIN input : Has(task, f) /\ task[f] = input[f]
    /\ LabelOf(input) = <<>> => ~HasInfo(task) /\ ~HasFailed(task)
    /\ LabelOf(input) # <<>> =>
          /\ HasInfo(task) <=> ~HasFailed(task)
          /\ HasInfo(task) <=> LabelMatched(LabelOf(input))
          /\ HasFailed(task) => task.bucketLookupFailed = TRUE
          /\ HasInfo(task) =>
                /\ DOMAIN task.bucketInfo = {"id", "name", "originalName", "exactMatch"}
                /\ task.bucketInfo.originalName = LabelOf(input)
                /\ \E n \in 1..Len(buckets) : InfoOf(task, n)

\* C14: after one lookupBuckets call on tasks that carry no earlier bucket
\* result, every returned task with a bucket label has exactly one of
\* bucketInfo {id and name of the matched bucket, originalName = the task's
\* label, exactMatch}, when the label matched, or bucketLookupFailed = true,
\* when it did not; a task without a label has neither; the returned list has
\* the length and the order of the input.
C14_OneOfInfoOrFailed ==
    FirstLookupDone =>
        /\ Len(Returned) = Len(tasks)
        /\ \A i \in 1..Len(Returned) : ResultShape(Returned[i], tasks[i])

\* the same for the labels that are no inherited property name
C14_OneOfInfoOrFailedOwnKeys ==
    FirstLookupDone =>
        /\ Len(Returned) = Len(tasks)
        /\ \A i \in 1..Len(Returned) :
              toLowerCase(LabelOf(tasks[i])) \notin ObjectPrototypeKeys =>
                  ResultShape(Returned[i], tasks[i])

----------------------------------------------------------------------------
(* C18 *)

\* the buckets of the latest snapshot that the label matched
MatchedBy(label) == NamedLike(label) \cup Qualifiers(label)

\* task i of the session went to the default bucket when its lookup failed or
\* it has no label, and to a bucket its label matched when there is one
PlacedByLookup(i) ==
    /\ (HasFailed(Returned[i]) \/ LabelOf(Returned[i]) = <<>>) => createdIn[i] = bucketId
    /\ (LabelOf(Returned[i]) # <<>> /\ MatchedBy(LabelOf(Returned[i])) # {}) =>
          \E n \in MatchedBy(LabelOf(Returned[i])) : createdIn[i] = buckets[n].id

\* C18: in /api/create-tasks every task whose bucket lookup failed
\* (bucketLookupFailed set, or no bucket label) is created in the default
\* bucketId sent with the request, and every task whose label matched an
\* existing bucket is created in that bucket's id.
C18_FailedGoToDefault ==
    pc = "created" =>
        /\ Len(createdIn) = Len(Returned)
        /\ \A i \in 1..Len(Returned) : PlacedByLookup(i)

\* the same when the session has looked its buckets up once only
C18_FailedGoToDefaultFirstLookup ==
    (pc = "created" /\ FirstLookupDone) =>
        /\ Len(createdIn) = Len(Returned)
        /\ \A i \in 1..Len(Returned) : PlacedByLookup(i)

----------------------------------------------------------------------------
(* C15 *)

\* the completed calls of one method that were given an empty snapshot
CallsOnNothing(name) ==
    {n \in 1..Len(history) : history[n].call = name /\ history[n].snapshot = <<>>}

\* the call returned one task per input task, none with a user or a candidate
\* and each task that names an assignee flagged for review
AllUnresolved(c) ==
    /\ Len(c.result) = Len(c.tasks)
    /\ \A i \in 1..Len(c.result) :
          namesOf(c.tasks[i]) # <<>> =>
              /\ c.result[i].assigneeUsers = <<>>
              /\ c.result[i].assigneeCandidates = <<>>
              /\ c.result[i].assigneeNeedsReview

\* the call returned one task per input task, each labelled one marked
\* bucketLookupFailed and without bucketInfo
AllNoMatch(c) ==
    /\ Len(c.result) = Len(c.tasks)
    /\ \A i \in 1..Len(c.result) :
          LabelOf(c.tasks[i]) # <<>> =>
              HasFailed(c.result[i]) /\ ~HasInfo(c.result[i])

\* C15: with an empty roster every assignee name of every task comes out
\* Unresolved (no assigneeUsers, no candidates, needsReview true), and with an
\* empty bucket snapshot every labelled task comes out NoMatch
\* (bucketLookupFailed); in both cases the call returns normally.
C15_EmptySnapshotsDegrade ==
    /\ plannerMembers = <<>> => \A p \in Evaluated : IsUnresolved(OutcomeAt(p))
    /\ \A n \in CallsOnNothing("lookupAssignees") : AllUnresolved(history[n])
    /\ \A n \in CallsOnNothing("lookupBuckets") : AllNoMatch(history[n])

\* the same for the labels that are no inherited property name
C15_EmptySnapshotsDegradeOwnKeys ==
    /\ plannerMembers = <<>> => \A p \in Evaluated : IsUnresolved(OutcomeAt(p))
    /\ \A n \in CallsOnNothing("lookupAssignees") : AllUnresolved(history[n])
    /\ \A n \in CallsOnNothing("lookupBuckets") :
          (\A i \in 1..Len(history[n].tasks) :
              toLowerCase(LabelOf(history[n].tasks[i])) \notin ObjectPrototypeKeys)
              => AllNoMatch(history[n])

\* both calls have returned on empty snapshots for a task with two names and
\* the label PLANNING
C15_WitnessOwnKeys ==
    /\ CallsOnNothing("lookupAssignees") # {}
    /\ CallsOnNothing("lookupBuckets") # {}
    /\ Len(tasks) = 1
    /\ Len(tasks[1].assignees) = 2
    /\ LabelOf(tasks[1]) = PlanningUpper
    /\ HasFailed(Returned[1])
    /\ Returned[1].assigneeNeedsReview

----------------------------------------------------------------------------
(* C16 *)

\* two completed calls of the same method on equal task lists and equal
\* snapshots, given in the same order
SameArguments(c, d) ==
    c.call = d.call /\ c.tasks = d.tasks /\ c.snapshot = d.snapshot

----------------------------------------------------------------------------
(* C17 *)

\* every roster member has its entry, in roster order, and is filed under each
\* of its keys
IndexComplete ==
    /\ Len(memberIndex.entries) = Len(plannerMembers)
    /\ \A n \in 1..Len(plannerMembers) :
          /\ memberIndex.entries[n].member = plannerMembers[n]
          /\ \A k \in Range(generateMemberKeys(plannerMembers[n])) :
                \E l \in 1..Len(MapGet(memberIndex.keyMap, k)) :
                    MapGet(memberIndex.keyMap, k)[l] = plannerMembers[n]

\* no name is matched before the index is built
BuiltBeforeMatching ==
    /\ pc = "start" => processedTasks = <<>> /\ evaluated = <<>>
    /\ pc # "start" => IndexComplete

\* a step taken once the index is built changes neither the index, nor a
\* roster member, nor an input task
IndexAndInputsKept ==
    pc # "start" =>
        /\ memberIndex' = memberIndex
        /\ plannerMembers' = plannerMembers
        /\ tasks' = tasks

\* C17: in lookupAssignees the roster index is built completely before the
\* first name is matched, and no later step changes it: every findMemberMatches
\* call leaves keyMap, entries and every roster member record unchanged, and
\* the input task records are not modified (results are copies).
C17_IndexBuiltThenFrozen == []BuiltBeforeMatching /\ [][IndexAndInputsKept]_vars

\* two tasks have been matched against an index of two members, one of them
\* resolved, and the input tasks are as they were given
C17_Witness ==
    /\ pc = "done"
    /\ Len(plannerMembers) = 2
    /\ Len(processedTasks) = 2
    /\ Len(processedTasks[1].assigneeUsers) = 1
    /\ IndexComplete
    /\ DOMAIN tasks[1] = {"assignee", "assignees"}

----------------------------------------------------------------------------
(* C19 *)

NoTokens(name) == generateAssigneeKeys(name).tokens = <<>>

\* C19 as stated: if the token list generated for a raw name is empty after
\* parenthetical stripping and normalisation, the outcome is Unresolved for
\* every roster (for example a raw name that consists only of a parenthetical).
C19_Original ==
    \A p \in Evaluated : NoTokens(NameAt(p)) => IsUnresolved(OutcomeAt(p))

\* C19 as amended: if the token list generated for a raw name is empty and no
\* generated key hits keyMap, the outcome is Unresolved for every roster, the
\* fallback scan not being run; a raw name that consists only of a
\* parenthetical still has the key normalizeKey(raw) and is Resolved or
\* Ambiguous when roster members are filed under it.
C19_NoTokensNoKeyHitUnresolved ==
    \A p \in Evaluated :
        NoTokens(NameAt(p)) =>
            /\ NoKeyHit(NameAt(p)) => IsUnresolved(OutcomeAt(p))
            /\ Cardinality(KeyHitIds(NameAt(p))) = 1 =>
                  /\ IsResolved(OutcomeAt(p))
                  /\ Ids(OutcomeAt(p).users) = KeyHitIds(NameAt(p))
            /\ Cardinality(KeyHitIds(NameAt(p))) >= 2 => IsAmbiguous(OutcomeAt(p))

\* "(a)" has no token and the key "a": Unresolved against the roster of Ann
\* Lee, whose searchText contains every token of an empty list
C19_Witness ==
    /\ pc = "done"
    /\ plannerMembers = <<AnnLee>>
    /\ tasks[1].assignee = <<"(", "a", ")">>
    /\ generateAssigneeKeys(tasks[1].assignee) = [keys |-> << <<"a">> >>, tokens |-> <<>>]
    /\ IsUnresolved(evaluated[1][1])

\* "(a)" Resolved to the member called "A"
C19_WitnessKeyHit ==
    /\ pc = "done"
    /\ plannerMembers = <<Acme>>
    /\ tasks[1].assignee = <<"(", "a", ")">>
    /\ NoTokens(tasks[1].assignee)
    /\ Ids(processedTasks[1].assigneeUsers) = {"u5"}

----------------------------------------------------------------------------
(* C20 *)

CommaCount(s) == Cardinality({i \in 1..Len(s) : s[i] = ","})

FirstComma(s) == CHOOSE i \in 1..Len(s) : s[i] = "," /\ \A j \in 1..(i - 1) : s[j] # ","

\* the text before the first comma and all the text after it, each with its
\* parentheticals stripped and trimmed
LastPart(s) == Trim(StripParens(SubSeq(s, 1, FirstComma(s) - 1)))
FirstPart(s) == Trim(StripParens(SubSeq(s, FirstComma(s) + 1, Len(s))))

\* the two keys of a split around the first comma
AroundFirstComma(s) ==
    {normalizeKey(Join2(FirstPart(s), LastPart(s))),
     normalizeKey(Join2(LastPart(s), FirstPart(s)))} \ {<<>>}

\* the keys generateAssigneeKeys adds whether or not the name has a comma
KeysWithoutComma(name) ==
    LET lower == Trim(name)
        tokens == generateAssigneeKeys(name).tokens
    IN {normalizeKey(lower), normalizeKey(Trim(StripParens(lower))), toLowerCase(lower)}
       \cup (IF Len(tokens) >= 2
              THEN {Join2(tokens[1], tokens[Len(tokens)]),
                    Join2(tokens[Len(tokens)], tokens[1])}
              ELSE {})

KeysOf(name) == Range(generateAssigneeKeys(name).keys)

\* C20 as stated: for every raw name with at least one comma the keys hold
\* normalize(first + " " + last) and normalize(last + " " + first), last being
\* the text before the first comma and first all the text after it, each with
\* parentheticals stripped; also when the name has two or more commas.
C20_Original ==
    \A p \in Evaluated :
        CommaCount(Trim(NameAt(p))) >= 1 =>
            AroundFirstComma(Trim(NameAt(p))) \subseteq KeysOf(NameAt(p))

\* C20 as amended: for a raw name with exactly one comma the keys hold
\* normalize(first + " " + last) and normalize(last + " " + first), last being
\* the text before the comma and first the text after it, each with
\* parentheticals stripped; for a raw name with two or more commas the comma
\* step adds no key, the keys being among those of the whole name, of the
\* name without parentheticals and of its first and last token.
C20_SwappedOnlyWithOneComma ==
    \A p \in Evaluated :
        /\ CommaCount(Trim(NameAt(p))) = 1 =>
              AroundFirstComma(Trim(NameAt(p))) \subseteq KeysOf(NameAt(p))
        /\ CommaCount(Trim(NameAt(p))) >= 2 =>
              KeysOf(NameAt(p)) \subseteq KeysWithoutComma(NameAt(p))

\* "a, b a" evaluated against Lee Ann: the key "b a a" comes from the comma
\* step alone
C20_Witness ==
    /\ pc = "done"
    /\ plannerMembers = <<LeeAnn>>
    /\ tasks[1].assignee = <<"a", ",", " ", "b", " ", "a">>
    /\ AroundFirstComma(tasks[1].assignee) =
          {<<"b", " ", "a", " ", "a">>, <<"a", " ", "b", " ", "a">>}
    /\ <<"b", " ", "a", " ", "a">> \in KeysOf(tasks[1].assignee)
    /\ <<"b", " ", "a", " ", "a">> \notin KeysWithoutComma(tasks[1].assignee)
    /\ Len(evaluated[1]) = 1

\* "a,b,a" evaluated: three parts, the key "b a a" of the split around the
\* first comma is not generated
C20_WitnessTwoCommas ==
    /\ pc = "done"
    /\ tasks[1].assignee = <<"a", ",", "b", ",", "a">>
    /\ <<"b", " ", "a", " ", "a">> \in AroundFirstComma(tasks[1].assignee)
    /\ <<"b", " ", "a", " ", "a">> \notin KeysOf(tasks[1].assignee)
    /\ Len(evaluated[1]) = 1

----------------------------------------------------------------------------
(* C21 *)

\* the label went through the fuzzy scan: no own key of the lookup and no
\* inherited property is named like it
Scanned(label) ==
    /\ label # <<>>
    /\ NamedLike(label) = {}
    /\ toLowerCase(label) \notin ObjectPrototypeKeys

\* the first bucket of the snapshot above the threshold
FirstQualifier(label) ==
    CHOOSE n \in Qualifiers(label) : \A m \in Qualifiers(label) : n <= m

\* the first bucket of the snapshot among those with the highest score
FirstBestQualifier(label) ==
    CHOOSE n \in Qualifiers(label) :
        \A m \in Qualifiers(label) :
            /\ ~Above(Score(label, m), Score(label, n))
            /\ (m < n => Above(Score(label, n), Score(label, m)))

\* C21 as stated: the fuzzy scan selects the first bucket encountered whose
\* score is above the 0.5 threshold; when an earlier bucket scores above 0.5
\* and a later one strictly higher, the earlier one is returned.
C21_Original ==
    FirstLookupDone =>
        \A i \in 1..Len(Returned) :
            (Scanned(LabelOf(Returned[i])) /\ Qualifiers(LabelOf(Returned[i])) # {}) =>
                /\ FuzzyReported(Returned[i])
                /\ InfoOf(Returned[i], FirstQualifier(LabelOf(Returned[i])))

\* C21 as amended: the fuzzy scan selects the bucket with the highest score
\* among those above the 0.5 threshold, and of several with that score the
\* first encountered; when an earlier bucket scores above 0.5 and a later one
\* strictly higher, the later one is returned.
C21_FirstOfHighestScore ==
    FirstLookupDone =>
        \A i \in 1..Len(Returned) :
            (Scanned(LabelOf(Returned[i])) /\ Qualifiers(LabelOf(Returned[i])) # {}) =>
                /\ FuzzyReported(Returned[i])
                /\ InfoOf(Returned[i], FirstBestQualifier(LabelOf(Returned[i])))

\* "Design Team" against Design (6/11), Design Tea (10/11), esign Team
\* (10/11): Design Tea is returned
C21_Witness ==
    /\ FirstLookupDone
    /\ buckets = <<Bucket("b2", Design), Bucket("b3", DesignTea), Bucket("b5", EsignTeam)>>
    /\ Len(Returned) >= 1
    /\ LabelOf(Returned[1]) = DesignTeam
    /\ Qualifiers(DesignTeam) = {1, 2, 3}
    /\ FirstQualifier(DesignTeam) = 1
    /\ FirstBestQualifier(DesignTeam) = 2
    /\ Returned[1].bucketInfo.id = "b3"

----------------------------------------------------------------------------
(* C22 *)

\* what a returned task says about its bucket
BucketOutcome(task) ==
    [info |-> IF HasInfo(task)
              THEN <<[id |-> task.bucketInfo.id, name |-> task.bucketInfo.name,
                      exactMatch |-> task.bucketInfo.exactMatch]>>
              ELSE <<>>,
     failed |-> HasFailed(task)]

\* the labels of a task list
LabelsIn(ts) == {LabelOf(ts[i]) : i \in 1..Len(ts)} \ {<<>>}

\* the last bucket of a snapshot named like the label, ignoring case
LastNamedLike(bs, label) ==
    CHOOSE n \in 1..Len(bs) :
        /\ EqualIgnoringCase(bs[n].name, label)
        /\ \A m \in (n + 1)..Len(bs) : ~EqualIgnoringCase(bs[m].name, label)

\* the call c resolved each label once and gave equal labels equal outcomes
OneOutcomePerLabel(c) ==
    /\ Len(c.result) = Len(c.tasks)
    /\ Range(UniqueNames(<<>>, c.tasks)) = LabelsIn(c.tasks)
    /\ Len(UniqueNames(<<>>, c.tasks)) = Cardinality(LabelsIn(c.tasks))
    /\ \A i, j \in 1..Len(c.tasks) :
          (LabelOf(c.tasks[i]) # <<>> /\ LabelOf(c.tasks[i]) = LabelOf(c.tasks[j])) =>
              BucketOutcome(c.result[i]) = BucketOutcome(c.result[j])

\* a label named like buckets of the snapshot is matched to the last of them
LastDuplicateWins(c) ==
    \A i \in 1..Len(c.tasks) :
        (/\ LabelOf(c.tasks[i]) # <<>>
         /\ \E n \in 1..Len(c.snapshot) :
                EqualIgnoringCase(c.snapshot[n].name, LabelOf(c.tasks[i]))) =>
            BucketOutcome(c.result[i]).info =
                <<Matched(c.snapshot[LastNamedLike(c.snapshot, LabelOf(c.tasks[i]))], TRUE)>>

\* C22: within one lookupBuckets call each distinct bucket label is resolved
\* once, and every task carrying the same label string gets the same outcome
\* (same bucket id, name and exactMatch flag, or bucketLookupFailed for all of
\* them); when the snapshot has two buckets whose names are equal ignoring
\* case, the later one in the snapshot is the one matched and the call does
\* not fail.
C22_OneOutcomePerLabelLastDuplicate ==
    \A n \in 1..Len(history) :
        history[n].call = "lookupBuckets" =>
            OneOutcomePerLabel(history[n]) /\ LastDuplicateWins(history[n])

\* two tasks labelled "PLANNING" against the snapshot Planning (b1), planning
\* (b4): both are matched to b4
C22_Witness ==
    /\ Len(history) >= 1
    /\ history[1].call = "lookupBuckets"
    /\ history[1].snapshot = <<Bucket("b1", Planning), Bucket("b4", PlanningLower)>>
    /\ Len(history[1].tasks) = 2
    /\ LabelOf(history[1].tasks[1]) = PlanningUpper
    /\ LabelOf(history[1].tasks[2]) = PlanningUpper
    /\ UniqueNames(<<>>, history[1].tasks) = <<PlanningUpper>>
    /\ history[1].result[1].bucketInfo.id = "b4"
    /\ history[1].result[2].bucketInfo.id = "b4"

----------------------------------------------------------------------------
(* C23 *)

\* the three assignee fields the two forms are compared on
AssigneeFields(task) ==
    [users |-> task.assigneeUsers, candidates |-> task.assigneeCandidates,
     needsReview |-> task.assigneeNeedsReview]

\* task i carries one assignee string and no list, task j a list of that string
TwoForms(i, j) ==
    /\ tasks[i].assignee # <<>>
    /\ tasks[i].assignees = <<>>
    /\ tasks[j].assignees = <<tasks[i].assignee>>

\* C23: a task that carries a single assignee string (assignee set, no
\* assignees list) gets the same assigneeUsers, assigneeCandidates and
\* assigneeNeedsReview from lookupAssignees as a task whose assignees list
\* holds that one string, for every roster.
C23_StringAsListOfOne ==
    \A i, j \in 1..Len(processedTasks) :
        TwoForms(i, j) => AssigneeFields(processedTasks[i]) = AssigneeFields(processedTasks[j])

\* "a b" against two members called Ann Lee: both forms are Ambiguous with the
\* same two candidates; the failed name is filed differently
C23_Witness ==
    /\ pc = "done"
    /\ plannerMembers = <<AnnLee, AnnLee2>>
    /\ TwoForms(1, 2)
    /\ tasks[1].assignee = <<"a", " ", "b">>
    /\ Len(processedTasks[1].assigneeCandidates) = 2
    /\ processedTasks[2].assigneeCandidates = processedTasks[1].assigneeCandidates
    /\ processedTasks[1].assigneeLookupFailed
    /\ processedTasks[2].assigneeLookupFailedList = <<tasks[1].assignee>>

----------------------------------------------------------------------------
(* C24 *)

\* ids of the members an outcome names, as user or as candidate
OutcomeIds(r) == Ids(r.users) \cup Ids(r.candidates)

\* the fallback scan runs for the name: no key hit and some token
FallbackRuns(name) == NoKeyHit(name) /\ generateAssigneeKeys(name).tokens # <<>>

\* C24: the token-containment fallback is used only when no generated key
\* hits keyMap: if at least one key matches, members that match only by token
\* containment are not in the result; when the fallback runs, a member
\* qualifies if and only if every token is a substring of its searchText
\* (plain substring, not word by word), and zero qualifiers gives Unresolved.
C24_FallbackOnlyWithoutKeyHit ==
    \A p \in Evaluated :
        /\ ~NoKeyHit(NameAt(p)) => OutcomeIds(OutcomeAt(p)) = KeyHitIds(NameAt(p))
        /\ FallbackRuns(NameAt(p)) =>
              /\ OutcomeIds(OutcomeAt(p)) = QualifierIds(NameAt(p))
              /\ QualifierIds(NameAt(p)) = {} => IsUnresolved(OutcomeAt(p))

\* "a" against Joanne alone: no key hit, the token "a" is inside the word
\* "ba", Resolved by the fallback
C24_Witness ==
    /\ pc = "done"
    /\ plannerMembers = <<Joanne>>
    /\ tasks[1].assignee = <<"a">>
    /\ FallbackRuns(tasks[1].assignee)
    /\ memberIndex.entries[1].searchText = <<"b", "a">>
    /\ Ids(processedTasks[1].assigneeUsers) = {"u6"}

\* "a b" against Ann Lee and Joanne: the key "a b" hits Ann Lee, and Joanne,
\* whose searchText contains both tokens, is not in the result
C24_WitnessKeyHit ==
    /\ pc = "done"
    /\ plannerMembers = <<AnnLee2, Joanne>>
    /\ tasks[1].assignee = <<"a", " ", "b">>
    /\ KeyHitIds(tasks[1].assignee) = {"u2"}
    /\ QualifierIds(tasks[1].assignee) = {"u2", "u6"}
    /\ Ids(processedTasks[1].assigneeUsers) = {"u2"}

\* "a c" against Joanne alone: the token "c" is not in "ba", Unresolved
C24_WitnessNoQualifier ==
    /\ pc = "done"
    /\ plannerMembers = <<Joanne>>
    /\ tasks[1].assignee = <<"a", " ", "c">>
    /\ FallbackRuns(tasks[1].assignee)
    /\ IsUnresolved(evaluated[1][1])

----------------------------------------------------------------------------
(* C25 *)

\* the keys generated for the members of the roster
RosterKeys == UNION {Range(generateMemberKeys(plannerMembers[i])) : i \in 1..Len(plannerMembers)}

\* the roster members whose generated key set contains k, in roster order
MembersWithKey(k) ==
    SelectSeq(plannerMembers, LAMBDA member : k \in Range(generateMemberKeys(member)))

\* C25: for every key k and roster, keyMap[k] built by buildMemberIndex holds
\* exactly the roster members whose generated key set contains k, in roster
\* order (a second member with the same key is appended, never replaces the
\* first), and the empty string is never a key of keyMap.
C25_KeyMapHoldsMembersInOrder ==
    pc # "start" =>
        /\ DOMAIN memberIndex.keyMap = RosterKeys
        /\ \A k \in RosterKeys : memberIndex.keyMap[k] = MembersWithKey(k)
        /\ <<>> \notin DOMAIN memberIndex.keyMap

\* two members called Ann Lee are filed under the key "a b" in roster order
C25_Witness ==
    /\ pc = "loop"
    /\ plannerMembers = <<AnnLee2, AnnLee>>
    /\ memberIndex.keyMap[<<"a", " ", "b">>] = <<AnnLee2, AnnLee>>
    /\ memberIndex.keyMap[<<"b", " ", "a">>] = <<AnnLee>>

\* the displayName "-" gives the member no key
C25_WitnessEmptyKey ==
    /\ pc = "loop"
    /\ plannerMembers = <<Dash, Joanne>>
    /\ normalizeKey(Dash.displayName) = <<>>
    /\ DOMAIN memberIndex.keyMap = {<<"b", "a">>}
    /\ Len(memberIndex.entries) = 2

----------------------------------------------------------------------------
(* C26 *)

\* the cell names one person "Last, First": one comma, no semicolon, a word on
\* each side
LastFirstCell(cell) ==
    /\ CommaCount(cell) = 1
    /\ ";" \notin Range(cell)
    /\ LastPart(cell) # <<>>
    /\ FirstPart(cell) # <<>>

IdsInOrder(users) == [k \in 1..Len(users) |-> users[k].id]

\* the matcher resolves the unsplit cell to one member
ResolvedUnsplit(cell) == IsResolved(evaluateAssignee(cell, memberIndex))

\* C26: end to end, a spreadsheet row whose assignee cell is a single person
\* written "Last, First" goes through processData and lookupAssignees to a
\* task whose assigneeUsers holds exactly that one member once, with no failed
\* names and needsReview unset, the same result as the matcher gives for the
\* unsplit name.
C26_LastFirstRowResolvesOnce ==
    \A i \in 1..Len(processedTasks) :
        (/\ pc \in {"loop", "done"}
         /\ LastFirstCell(tasks[i].assignee)
         /\ ResolvedUnsplit(tasks[i].assignee)) =>
            /\ IdsInOrder(processedTasks[i].assigneeUsers) =
                  IdsInOrder(evaluateAssignee(tasks[i].assignee, memberIndex).users)
            /\ processedTasks[i].assigneeLookupFailedList = <<>>
            /\ ~processedTasks[i].assigneeLookupFailed
            /\ ~processedTasks[i].assigneeNeedsReview

\* a row whose assignee cell holds no comma and no semicolon goes through
\* processData and lookupAssignees to the result of the matcher for the cell
C26_UnsplitRowAsMatcher ==
    \A i \in 1..Len(processedTasks) :
        (pc \in {"loop", "done"} /\ tasks[i].assignees = <<tasks[i].assignee>>) =>
            /\ processedTasks[i].assigneeUsers =
                  evaluateAssignee(tasks[i].assignee, memberIndex).users
            /\ processedTasks[i].assigneeCandidates =
                  evaluateAssignee(tasks[i].assignee, memberIndex).candidates

\* the cell "b, a" against Ann Lee alone: the unsplit name is Resolved by the
\* swapped key, the row was split into "b" and "a" and holds Ann Lee twice
C26_WitnessSplit ==
    /\ pc = "done"
    /\ plannerMembers = <<AnnLee>>
    /\ Len(tasks) = 1
    /\ tasks[1].assignee = <<"b", ",", " ", "a">>
    /\ tasks[1].assignees = << <<"b">>, <<"a">> >>
    /\ ResolvedUnsplit(tasks[1].assignee)
    /\ IdsInOrder(processedTasks[1].assigneeUsers) = <<"u1", "u1">>

----------------------------------------------------------------------------
(* C27 *)

\* the stored task carries exactly one bucket result, that of the latest snapshot
ReflectsLatest(task) ==
    /\ HasInfo(task) <=> ~HasFailed(task)
    /\ HasInfo(task) <=> MatchedBy(LabelOf(task)) # {}
    /\ HasInfo(task) => \E n \in MatchedBy(LabelOf(task)) : InfoOf(task, n)

\* C27: after any sequence of /api/lookup-buckets calls on one session, with
\* the plan's buckets changing between calls, every stored enriched task with
\* a bucket label (inherited property names left aside) has exactly one of
\* bucketInfo and bucketLookupFailed, never both, and the one it has reflects
\* the bucket snapshot of the most recent call.
C27_OneResultOfLatestSnapshot ==
    lookups >= 1 =>
        \A i \in 1..Len(Returned) :
            (/\ LabelOf(Returned[i]) # <<>>
             /\ toLowerCase(LabelOf(Returned[i])) \notin ObjectPrototypeKeys) =>
                ReflectsLatest(Returned[i])

\* the same after the first call of the session
C27_OneResultOfFirstSnapshot ==
    FirstLookupDone =>
        \A i \in 1..Len(Returned) :
            (/\ LabelOf(Returned[i]) # <<>>
             /\ toLowerCase(LabelOf(Returned[i])) \notin ObjectPrototypeKeys) =>
                ReflectsLatest(Returned[i])

\* "PLANNING" failed against a plan without buckets, the bucket Planning was
\* created, and the second call left both results on the task
C27_WitnessBoth ==
    /\ lookups = 2
    /\ Len(Returned) >= 1
    /\ history[1].snapshot = <<>>
    /\ buckets = <<Bucket("b1", Planning)>>
    /\ LabelOf(Returned[1]) = PlanningUpper
    /\ HasInfo(Returned[1])
    /\ HasFailed(Returned[1])

----------------------------------------------------------------------------
(* C28 *)

\* the fields processData gives a task
ParsedFields == {"title", "assignee", "assignees", "bucketName"}

\* the tasks of a list reduced to their parsed fields
ParsedOf(ts) ==
    [i \in 1..Len(ts) |-> [f \in DOMAIN ts[i] \cap ParsedFields |-> ts[i][f]]]

\* a /api/lookup-buckets step stores tasks derived from the latest list
LookupOnNewest == lookups' = lookups + 1 => ParsedOf(enrichedTasks'[1]) = tasks

\* a /api/create-tasks step creates tasks derived from the latest list
CreateOnNewest == (pc = "session" /\ pc' = "created") => ParsedOf(enrichedTasks[1]) = tasks

\* C28: after /api/process-data stores a new task list in a session, every
\* later /api/lookup-buckets and /api/create-tasks on that session works on
\* tasks derived from that newest list; enriched tasks computed from an
\* earlier process-data call are never looked up again or created.
C28_LaterRequestsUseNewestList == [][LookupOnNewest /\ CreateOnNewest]_vars

\* the same for the first /api/lookup-buckets of a session
C28_FirstLookupUsesNewestList ==
    [][lookups = 0 /\ lookups' = 1 => ParsedOf(enrichedTasks'[1]) = tasks]_vars

\* a list labelled "PLANNING" was looked up, a list labelled "Des" was
\* processed, and the task created is still the one labelled "PLANNING"
C28_WitnessStale ==
    /\ pc = "created"
    /\ Len(tasks) = 1
    /\ LabelOf(tasks[1]) = Des
    /\ Len(enrichedTasks[1]) = 1
    /\ LabelOf(enrichedTasks[1][1]) = PlanningUpper
    /\ createdIn = <<"b1">>

----------------------------------------------------------------------------
(* C29 *)

\* the completed call n was a lookupAssignees right after a lookupBuckets
AssigneesAfterBuckets(n) ==
    /\ n >= 2
    /\ history[n].call = "lookupAssignees"
    /\ history[n - 1].call = "lookupBuckets"

\* the completed call n was a lookupBuckets right after a lookupAssignees
BucketsAfterAssignees(n) ==
    /\ n >= 2
    /\ history[n].call = "lookupBuckets"
    /\ history[n - 1].call = "lookupAssignees"

\* C29: /api/lookup-assignees leaves the bucket resolution of the session's
\* tasks unchanged: when /api/lookup-buckets has already set bucketInfo or
\* bucketLookupFailed on the enriched tasks, those fields are still on the
\* session's enriched tasks after a following /api/lookup-assignees.
C29_AssigneesKeepBuckets ==
    \A n \in 1..Len(history) :
        AssigneesAfterBuckets(n) =>
            /\ Len(history[n].result) = Len(history[n - 1].result)
            /\ \A i \in 1..Len(history[n].result) :
                  BucketOutcome(history[n].result[i]) = BucketOutcome(history[n - 1].result[i])

\* in the other order the assignee fields set by /api/lookup-assignees are
\* still on the session's enriched tasks after a following /api/lookup-buckets
C29_BucketsKeepAssignees ==
    \A n \in 1..Len(history) :
        BucketsAfterAssignees(n) =>
            /\ Len(history[n].result) = Len(history[n - 1].result)
            /\ \A i \in 1..Len(history[n].result) :
                  AssigneeFields(history[n].result[i]) = AssigneeFields(history[n - 1].result[i])

\* "PLANNING" was matched to Planning (b1), lookup-assignees followed, and
\* the task was created in the default bucket b0
C29_WitnessLost ==
    /\ pc = "created"
    /\ Len(history) = 2
    /\ AssigneesAfterBuckets(2)
    /\ Len(tasks) = 1
    /\ HasInfo(history[1].result[1])
    /\ history[1].result[1].bucketInfo.id = "b1"
    /\ ~HasInfo(enrichedTasks[1][1])
    /\ bucketId = "b0"
    /\ createdIn = <<"b0">>

\* lookup-assignees resolved Ann Lee, lookup-buckets followed and the task
\* still carries her
C29_WitnessKept ==
    /\ Len(history) = 2
    /\ BucketsAfterAssignees(2)
    /\ Len(tasks) = 1
    /\ Len(history[1].result[1].assigneeUsers) = 1
    /\ HasInfo(enrichedTasks[1][1])
    /\ Len(enrichedTasks[1][1].assigneeUsers) = 1

----------------------------------------------------------------------------
(* C30 *)

\* no two buckets of the plan have the same lower-cased name
UniqueIgnoringCase(bs) ==
    \A m, n \in 1..Len(bs) : m # n => toLowerCase(bs[m].name) # toLowerCase(bs[n].name)

\* C30: starting from a plan whose bucket names are unique ignoring case,
\* after any sequence of /api/buckets/create requests (also interleaved ones,
\* and requests whose bucketNames list repeats a name or holds two names
\* differing only in case) no two buckets of the plan have the same
\* lower-cased name.
C30_NoDuplicateBuckets == UniqueIgnoringCase(planBuckets)

\* what the filter does ensure: no name a request sets out to create is,
\* ignoring case, the name of a bucket the plan held when the request read it
C30_ToCreateAbsentWhenRead ==
    [][\A r \in 1..MaxRequests :
          (creating[r].pc = "idle" /\ creating'[r].pc = "creating") =>
              \A i \in 1..Len(creating'[r].toCreate) :
                  /\ creating'[r].toCreate[i] # <<>>
                  /\ toLowerCase(creating'[r].toCreate[i]) \notin existingLower(planBuckets)]_vars

\* one request alone, whose list held "Q" and "q", has left the plan with both
C30_WitnessRepeated ==
    /\ creating[1].pc = "done"
    /\ creating[2].pc = "idle"
    /\ Len(planBuckets) = 2
    /\ planBuckets[1].name = <<"Q">>
    /\ planBuckets[2].name = <<"q">>
    /\ planBuckets[1].id = "n1"

\* two requests for "D" read a plan without it before either created it
C30_WitnessInterleaved ==
    /\ creating[1].pc = "done"
    /\ creating[2].pc = "done"
    /\ Len(planBuckets) = 3
    /\ planBuckets[1] = Bucket("b1", <<"Q">>)
    /\ planBuckets[2].name = <<"D">>
    /\ planBuckets[3].name = <<"D">>

====
